---------------------------- MODULE Spec2Model ----------------------------
(***************************************************************************)
(* easy_fuser: the inode mapper (src/src/inode_mapper.rs), the resolvers   *)
(* built on it (src/src/core/inode_mapping.rs) and the entry dispatch      *)
(* macro (src/src/core/macros.rs).                                         *)
(*                                                                         *)
(* Three specifications share the mapper operators:                        *)
(*   Spec          InodeMapper<T> driven by its public operations          *)
(*   SpecResolver  ComponentsResolver called from several threads          *)
(*   SpecDispatch  the entry dispatch path with a kernel holding lookups   *)
(***************************************************************************)
EXTENDS Integers, Sequences, FiniteSets, TLC

\* ------------------------------------------------------------------ bounds

\* Largest inode number the allocator may hand out in the model.
MaxInode == 3
\* Largest stored data value / reference count a creator may produce.
MaxRef == 2
\* Largest nlookup a forget call carries.
MaxForget == 2
\* How far below zero a reference count may wrap: down to 2^64 - MaxWrap.
MaxWrap == 1
\* The reply buffer of a readdir call takes between MinFit and MaxFit
\* entries. The kernel asks for a page, into which several entries of the
\* longest name fit, so that a call is never cut after a single entry.
MinFit == 2
MaxFit == 3
\* readdir offsets run from -1 to MaxOffset.
MaxOffset == 4
\* A cursor store holds at most MaxCursors cursors.
MaxCursors == 1
\* The file handles of the directories the kernel has open: 1..MaxHandles.
MaxHandles == 2
\* The inode of a HybridId runs from 1 to MaxHybridInode, its path has up to
\* MaxPathLen components.
MaxHybridInode == 7
MaxPathLen == 3

\* ------------------------------------------------------- program constants

ROOT_INO == 1
ROOT_INODE == ROOT_INO

\* Option<Inode>::None (no inode has number 0: the allocator starts at 2).
NoInode == ROOT_INO - 1
\* Option<T>: <<>> is None, <<x>> is Some(x).
None == <<>>
Some(x) == <<x>>

RootName == ""
Names == {"a", "b"}
InodeIds == 1..MaxInode

\* -------------------------------------------------------------- HashMap

MapPut(m, k, v) == [x \in (DOMAIN m) \cup {k} |-> IF x = k THEN v ELSE m[x]]
MapDel(m, k) == [x \in (DOMAIN m) \ {k} |-> m[x]]
EmptyMap == <<>>

\* ------------------------------------------------------------ the mapper

VARIABLES
    inodes,      \* InodeData.inodes: inode -> [parent, name, data]
    children,    \* InodeData.children: parent -> (name -> inode)
    next_inode,  \* InodeMapper.next_inode
    last,        \* the operation that made the last step, and what it returned
    th,          \* per thread: where it stands inside a request or resolver call
    poisoned,    \* the RwLock around the mapper is poisoned
    kref,        \* inode -> lookup references the kernel holds on it
    dirmap_iter  \* the cursor stores of readdir (FALSE) and readdirplus (TRUE):
                 \* (inode, offset) -> the entries still to emit

\* The mapper as a value, so that its methods are operators on it.
Mapper == [inodes |-> inodes, children |-> children, next_inode |-> next_inode]

\* the counter left where it is
add_one_stuck(i) == i
\* Inode::add_one
add_one(i) == i + 1

\* the root made a child of no inode
new_root_unparented(data) ==
    [inodes |-> MapPut(EmptyMap, ROOT_INODE,
                       [parent |-> NoInode, name |-> RootName, data |-> data]),
     children |-> EmptyMap,
     next_inode |-> add_one(ROOT_INODE)]

\* InodeMapper::new(data)
new(data) ==
    [inodes |-> MapPut(EmptyMap, ROOT_INODE,
                       [parent |-> ROOT_INODE, name |-> RootName, data |-> data]),
     children |-> EmptyMap,
     next_inode |-> add_one(ROOT_INODE)]

\* Value creators: the two closures the resolver passes to the mapper.
\* ComponentsResolver::lookup: |_| AtomicU64::new(if increment { 1 } else { 0 })
LookupCreator(incr) == [kind |-> "const", incr |-> incr]
\* the existing count not read
AddChildrenCreatorFresh(incr) == [kind |-> "const", incr |-> incr]
\* ComponentsResolver::add_children: existing + (incr ? 1 : 0), or (incr ? 1 : 0)
AddChildrenCreator(incr) == [kind |-> "merge", incr |-> incr]
Creators == {LookupCreator(i) : i \in BOOLEAN} \cup {AddChildrenCreator(i) : i \in BOOLEAN}

\* the closure called as if there were no existing data
ApplyCreatorBlind(vc, existing_data) == IF vc.incr THEN 1 ELSE 0
\* value_creator(ValueCreatorParams { .., existing_data })
ApplyCreator(vc, existing_data) ==
    IF vc.kind = "const" THEN (IF vc.incr THEN 1 ELSE 0)
    ELSE IF existing_data = None THEN (IF vc.incr THEN 1 ELSE 0)
    ELSE (IF vc.incr THEN existing_data[1] + 1 ELSE existing_data[1])

\* InodeMapper::get
get(M, inode) == IF inode \in DOMAIN M.inodes THEN Some(M.inodes[inode]) ELSE None

\* InodeMapper::lookup: the child inode, or NoInode
lookup(M, parent, name) ==
    IF parent \in DOMAIN M.children /\ name \in DOMAIN M.children[parent]
    THEN M.children[parent][name]
    ELSE NoInode

\* InodeMapper::get_children: the (name, inode) pairs of a parent
get_children(M, parent) ==
    IF parent \in DOMAIN M.children
    THEN {<<n, M.children[parent][n]>> : n \in DOMAIN M.children[parent]}
    ELSE {}

\* a new inode for the name whether or not the parent has it already
insert_child_unchecked_fresh(M, parent, child, vc) ==
    LET idx == IF parent \in DOMAIN M.children THEN M.children[parent] ELSE EmptyMap
        inode == M.next_inode
    IN [m |-> [inodes |-> MapPut(M.inodes, inode,
                                 [parent |-> parent, name |-> child,
                                  data |-> ApplyCreator(vc, None)]),
               children |-> MapPut(M.children, parent, MapPut(idx, child, inode)),
               next_inode |-> add_one(inode)],
        inode |-> inode, is_new |-> TRUE]
\* InodeMapper::insert_child_unchecked
insert_child_unchecked(M, parent, child, vc) ==
    LET idx == IF parent \in DOMAIN M.children THEN M.children[parent] ELSE EmptyMap
        is_new == child \notin DOMAIN idx
        inode == IF is_new THEN M.next_inode ELSE idx[child]
    IN IF is_new
       THEN [m |-> [inodes |-> MapPut(M.inodes, inode,
                                      [parent |-> parent, name |-> child,
                                       data |-> ApplyCreator(vc, None)]),
                    children |-> MapPut(M.children, parent, MapPut(idx, child, inode)),
                    next_inode |-> add_one(inode)],
             inode |-> inode, is_new |-> TRUE]
       ELSE [m |-> [M EXCEPT !.inodes[inode].data = ApplyCreator(vc, Some(@))],
             inode |-> inode, is_new |-> FALSE]

\* InodeMapper::insert_child
insert_child(M, parent, child, vc) ==
    IF parent \notin DOMAIN M.inodes
    THEN [m |-> M, ok |-> FALSE, err |-> "ParentNotFound", inode |-> NoInode]
    ELSE LET r == insert_child_unchecked(M, parent, child, vc)
         IN [m |-> r.m, ok |-> TRUE, err |-> "", inode |-> r.inode]

RECURSIVE insert_children_loop(_, _, _, _)
\* the map over the children of insert_children: one insert_child_unchecked
\* per entry, in input order, collecting the inodes.
insert_children_loop(M, parent, list, acc) ==
    IF list = <<>> THEN [m |-> M, inodes |-> acc]
    ELSE LET r == insert_child_unchecked(M, parent, Head(list).name, Head(list).vc)
         IN insert_children_loop(r.m, parent, Tail(list), Append(acc, r.inode))

\* insert_children without the check of the parent
insert_children_parent_unchecked(M, parent, list) ==
    LET M1 == IF parent \in DOMAIN M.children
              THEN M
              ELSE [M EXCEPT !.children = MapPut(M.children, parent, EmptyMap)]
        r == insert_children_loop(M1, parent, list, <<>>)
    IN [m |-> r.m, ok |-> TRUE, err |-> "", inodes |-> r.inodes]
\* InodeMapper::insert_children; list is a sequence of [name, vc]
insert_children(M, parent, list) ==
    IF parent \notin DOMAIN M.inodes
    THEN [m |-> M, ok |-> FALSE, err |-> "ParentNotFound", inodes |-> <<>>]
    ELSE LET M1 == IF parent \in DOMAIN M.children
                   THEN M  \* reserve() changes capacity only
                   ELSE [M EXCEPT !.children = MapPut(M.children, parent, EmptyMap)]
             r == insert_children_loop(M1, parent, list, <<>>)
         IN [m |-> r.m, ok |-> TRUE, err |-> "", inodes |-> r.inodes]

\* the entries left in the order given
SortByLen_unsorted(entries) == entries
\* sort_by_key(|f| f.0.len()): a stable sort by path length.
SortByLen(entries) ==
    LET lens == {Len(entries[i].path) : i \in DOMAIN entries}
        RECURSIVE pick(_, _)
        pick(ls, acc) ==
            IF ls = {} THEN acc
            ELSE LET l == CHOOSE x \in ls : \A y \in ls : x <= y
                 IN pick(ls \ {l}, acc \o SelectSeq(entries, LAMBDA e : Len(e.path) = l))
    IN pick(lens, <<>>)

RECURSIVE ensure_path_exists_loop(_, _, _, _, _, _)
\* the for loop of ensure_path_exists, from component i on.
ensure_path_exists_loop(M, path_cache, path, default_vc, i, current_inode) ==
    IF i > Len(path) THEN [m |-> M, cache |-> path_cache, inode |-> current_inode]
    ELSE LET current_path == SubSeq(path, 1, i)
             component == path[i]
         IN IF current_path \in DOMAIN path_cache
            THEN ensure_path_exists_loop(M, path_cache, path, default_vc, i + 1,
                                         path_cache[current_path])
            ELSE LET found == lookup(M, current_inode, component)
                     r == IF found # NoInode
                          THEN [m |-> M, inode |-> found]
                          ELSE insert_child_unchecked(M, current_inode, component, default_vc)
                 IN ensure_path_exists_loop(r.m, MapPut(path_cache, current_path, r.inode),
                                            path, default_vc, i + 1, r.inode)

\* InodeMapper::ensure_path_exists
ensure_path_exists(M, path_cache, path, default_vc) ==
    ensure_path_exists_loop(M, path_cache, path, default_vc, 1, path_cache[<<>>])

RECURSIVE batch_insert_loop(_, _, _, _)
\* the for loop of batch_insert over the sorted entries. path.pop().expect()
\* panics on an empty path; the mapper keeps what the earlier entries did.
batch_insert_loop(M, path_cache, sorted_entries, default_vc) ==
    IF sorted_entries = <<>> THEN [m |-> M, panic |-> FALSE]
    ELSE LET e == Head(sorted_entries)
         IN IF e.path = <<>> THEN [m |-> M, panic |-> TRUE]
            ELSE LET name == e.path[Len(e.path)]
                     path == SubSeq(e.path, 1, Len(e.path) - 1)
                     p == ensure_path_exists(M, path_cache, path, default_vc)
                     r == insert_child_unchecked(p.m, p.inode, name, e.vc)
                 IN batch_insert_loop(r.m, p.cache, Tail(sorted_entries), default_vc)

\* InodeMapper::batch_insert; entries is a sequence of [path, vc]
batch_insert(M, parent, entries, default_vc) ==
    IF parent \notin DOMAIN M.inodes
    THEN [m |-> M, ok |-> FALSE, err |-> "ParentNotFound", panic |-> FALSE]
    ELSE LET r == batch_insert_loop(M, MapPut(EmptyMap, <<>>, parent),
                                    SortByLen(entries), default_vc)
         IN [m |-> r.m, ok |-> ~r.panic, err |-> "", panic |-> r.panic]

RECURSIVE resolve_loop(_, _, _, _)
\* the while loop of resolve. A walk longer than the number of live inodes
\* has entered a cycle of parent links that holds no self-parented inode:
\* the loop of the code then never ends.
resolve_loop(M, current_inode, result, steps) ==
    LET current_info == M.inodes[current_inode]
    IN IF current_info.parent = current_inode
       THEN [kind |-> "some", infos |-> result]
       ELSE IF steps > Cardinality(DOMAIN M.inodes)
       THEN [kind |-> "diverges", infos |-> <<>>]
       ELSE IF current_info.parent \notin DOMAIN M.inodes
       THEN [kind |-> "none", infos |-> <<>>]
       ELSE resolve_loop(M, current_info.parent,
                         Append(result, [inode |-> current_inode,
                                         parent |-> current_info.parent,
                                         name |-> current_info.name,
                                         data |-> current_info.data]),
                         steps + 1)

\* InodeMapper::resolve: "some" with the records from leaf to root, "none",
\* or "diverges" when the loop does not terminate.
resolve(M, inode) ==
    IF inode \notin DOMAIN M.inodes THEN [kind |-> "none", infos |-> <<>>]
    ELSE resolve_loop(M, inode, <<>>, 1)

\* the old edge left where it was
rename_keeps_old_edge(M, parent, oldname) == M.children
\* the whole index of the old parent dropped with the edge
rename_drops_old_index(M, parent, oldname) == MapDel(M.children, parent)

\* rename, "Remove the child from the old parent" and "Remove the old parent if
\* it's now empty": the child index without the edge (parent, oldname).
rename_remove_old_edge(M, parent, oldname) ==
    LET parent_children == MapDel(M.children[parent], oldname)
        is_parent_empty == DOMAIN parent_children = {}
    IN IF is_parent_empty THEN MapDel(M.children, parent)
       ELSE MapPut(M.children, parent, parent_children)

\* the update with the name left as it was
rename_update_value_keeps_name(inodes_map, child_inode, newparent, newname) ==
    IF child_inode \in DOMAIN inodes_map
    THEN [inodes_map EXCEPT ![child_inode].parent = newparent]
    ELSE inodes_map

\* rename, "Update the inode value with the new parent and name".
rename_update_value(inodes_map, child_inode, newparent, newname) ==
    IF child_inode \in DOMAIN inodes_map
    THEN [inodes_map EXCEPT ![child_inode].parent = newparent,
                            ![child_inode].name = newname]
    ELSE inodes_map

\* the new edge not inserted
rename_insert_new_edge_skipped(children_map, newparent, newname, child_inode) == children_map
\* rename, "Insert the child into the new parent's children map".
rename_insert_new_edge(children_map, newparent, newname, child_inode) ==
    LET newidx == IF newparent \in DOMAIN children_map THEN children_map[newparent]
                  ELSE EmptyMap
    IN MapPut(children_map, newparent, MapPut(newidx, newname, child_inode))

\* rename, what became of the inode the destination edge held before: it is
\* removed from the inode map. (The code keeps this as a comment only.)
rename_displaced_purged(inodes_map, old) == MapDel(inodes_map, old)

\* rename, what becomes of the inode the destination edge held before
\* (old, NoInode when the edge was free): both branches are Ok(None) and
\* leave the inode map alone.
rename_displaced(inodes_map, old) == inodes_map

\* rename without the check of the new parent
rename_newparent_unchecked(M, parent, oldname, newparent, newname) ==
    IF parent \notin DOMAIN M.inodes
    THEN [m |-> M, ok |-> FALSE, err |-> "ParentNotFound", child |-> NoInode, displaced |-> NoInode]
    ELSE IF parent \notin DOMAIN M.children \/ oldname \notin DOMAIN M.children[parent]
    THEN [m |-> M, ok |-> FALSE, err |-> "NotFound", child |-> NoInode, displaced |-> NoInode]
    ELSE LET child_inode == M.children[parent][oldname]
             children1 == rename_remove_old_edge(M, parent, oldname)
             inodes1 == rename_update_value(M.inodes, child_inode, newparent, newname)
             old == lookup([M EXCEPT !.children = children1], newparent, newname)
             children2 == rename_insert_new_edge(children1, newparent, newname, child_inode)
         IN [m |-> [inodes |-> rename_displaced(inodes1, old), children |-> children2,
                    next_inode |-> M.next_inode],
             ok |-> TRUE, err |-> "", child |-> child_inode, displaced |-> old]
\* InodeMapper::rename. displaced is the inode HashMap::insert returned for
\* the destination edge (NoInode when the edge was free).
rename(M, parent, oldname, newparent, newname) ==
    IF parent \notin DOMAIN M.inodes
    THEN [m |-> M, ok |-> FALSE, err |-> "ParentNotFound", child |-> NoInode, displaced |-> NoInode]
    ELSE IF newparent \notin DOMAIN M.inodes
    THEN [m |-> M, ok |-> FALSE, err |-> "NewParentNotFound", child |-> NoInode, displaced |-> NoInode]
    ELSE IF parent \notin DOMAIN M.children \/ oldname \notin DOMAIN M.children[parent]
    THEN [m |-> M, ok |-> FALSE, err |-> "NotFound", child |-> NoInode, displaced |-> NoInode]
    ELSE LET child_inode == M.children[parent][oldname]
             children1 == rename_remove_old_edge(M, parent, oldname)
             inodes1 == rename_update_value(M.inodes, child_inode, newparent, newname)
             old == lookup([M EXCEPT !.children = children1], newparent, newname)
             children2 == rename_insert_new_edge(children1, newparent, newname, child_inode)
         IN [m |-> [inodes |-> rename_displaced(inodes1, old), children |-> children2,
                    next_inode |-> M.next_inode],
             ok |-> TRUE, err |-> "", child |-> child_inode, displaced |-> old]

RECURSIVE remove(_, _)
RECURSIVE remove_cascade(_, _)
\* the cascade loop of remove over children.values(). The HashMap gives the
\* values in no particular order; EdgesConsistent (below) is why the order
\* does not matter: each child has the removed inode as parent, whose index
\* is already dropped, so removing one child touches its own subtree only.
remove_cascade(M, kids) ==
    IF DOMAIN kids = {} THEN M
    ELSE LET n == CHOOSE x \in DOMAIN kids : TRUE
         IN remove_cascade(remove(M, kids[n]).m, MapDel(kids, n))

\* InodeMapper::remove, past the debug assertion on the root
remove(M, inode) ==
    IF inode \notin DOMAIN M.inodes THEN [m |-> M, data |-> None]
    ELSE LET inode_value == M.inodes[inode]
             inodes1 == MapDel(M.inodes, inode)
             children1 ==
                 IF inode_value.parent \in DOMAIN M.children
                 THEN LET parent_children ==
                              MapDel(M.children[inode_value.parent], inode_value.name)
                      IN IF DOMAIN parent_children = {}
                         THEN MapDel(M.children, inode_value.parent)
                         ELSE MapPut(M.children, inode_value.parent, parent_children)
                 ELSE M.children
             kids == IF inode \in DOMAIN children1 THEN children1[inode] ELSE EmptyMap
             M1 == [inodes |-> inodes1, children |-> MapDel(children1, inode),
                    next_inode |-> M.next_inode]
         IN [m |-> remove_cascade(M1, kids), data |-> Some(inode_value.data)]

\* The threads that call into the resolver (it is shared through &self);
\* two are enough to interleave.
Threads == {"t1", "t2"}

\* A thread outside any resolver call.
Idle == [pc |-> "idle", parent |-> NoInode, name |-> RootName, incr |-> FALSE,
         ino |-> NoInode, req |-> "call"]

Init ==
    /\ inodes = new(0).inodes
    /\ children = new(0).children
    /\ next_inode = new(0).next_inode
    /\ last = [op |-> "new"]
    /\ th = [t \in Threads |-> Idle]
    /\ poisoned = FALSE
    /\ kref = [i \in InodeIds |-> 0]
    /\ dirmap_iter = [plus \in BOOLEAN |-> EmptyMap]

\* What fits the model's bound: the allocator within MaxInode.
InBounds(M) ==
    /\ M.next_inode <= MaxInode + 1

SetMapper(M) ==
    /\ inodes' = M.inodes
    /\ children' = M.children
    /\ next_inode' = M.next_inode

\* Inputs of the mapper-level specification. The creators are the resolver's:
\* a constant 1, and "keep the existing value, else 0".
MapperCreators == {LookupCreator(TRUE), AddChildrenCreator(FALSE)}
Entry(n, vc) == [name |-> n, vc |-> vc]
ChildLists ==
    {<<>>}
    \cup {<<Entry(n, vc)>> : n \in Names, vc \in MapperCreators}
    \cup {<<Entry(n1, LookupCreator(TRUE)), Entry(n2, AddChildrenCreator(FALSE))>> :
            n1 \in Names, n2 \in Names}
PathEntry(path) == [path |-> path, vc |-> LookupCreator(TRUE)]
BatchLists ==
    {<<>>, <<PathEntry(<<>>)>>}
    \cup {<<PathEntry(<<n>>)>> : n \in Names}
    \cup {<<PathEntry(<<n1, n2>>)>> : n1 \in Names, n2 \in Names}
    \cup {<<PathEntry(<<n1, n2>>), PathEntry(<<n1>>)>> : n1 \in Names, n2 \in Names}

\* A resolve that never returns ends the run: nothing follows it.
Running == ~(last.op = "resolve" /\ last.kind = "diverges")

\* last records the operation that made the step and what it returned
\* (err = "" for Ok).
InsertChild(parent, child, vc) ==
    LET r == insert_child(Mapper, parent, child, vc)
    IN /\ InBounds(r.m)
       /\ SetMapper(r.m)
       /\ last' = [op |-> "insert_child", vc |-> vc, err |-> r.err, inode |-> r.inode,
                   is_new |-> r.ok /\ lookup(Mapper, parent, child) = NoInode]

InsertChildren(parent, list) ==
    LET r == insert_children(Mapper, parent, list)
    IN /\ InBounds(r.m)
       /\ SetMapper(r.m)
       /\ last' = [op |-> "insert_children", err |-> r.err, inodes |-> r.inodes]

BatchInsert(parent, entries, default_vc) ==
    LET r == batch_insert(Mapper, parent, entries, default_vc)
    IN /\ InBounds(r.m)
       /\ SetMapper(r.m)
       /\ last' = [op |-> "batch_insert", err |-> r.err, panic |-> r.panic,
                   made |-> r.m.next_inode - next_inode]

\* The rename is the inverse of the rename the step before made.
RenameUndoes(parent, oldname, newparent, newname) ==
    /\ last.op = "rename"
    /\ last.err = ""
    /\ <<last.newparent, last.newname>> = <<parent, oldname>>
    /\ <<last.parent, last.name>> = <<newparent, newname>>

Rename(parent, oldname, newparent, newname) ==
    LET r == rename(Mapper, parent, oldname, newparent, newname)
    IN /\ SetMapper(r.m)
       /\ last' = IF r.ok
                   THEN [op |-> "rename", parent |-> parent, name |-> oldname,
                         newparent |-> newparent, newname |-> newname,
                         err |-> r.err, child |-> r.child, displaced |-> r.displaced,
                         undoes |-> RenameUndoes(parent, oldname, newparent, newname)]
                   ELSE [op |-> "rename", err |-> r.err]

\* remove(ROOT) panics before it touches the mapper where debug assertions
\* are on; where they are off the root is removed like any other inode.
Remove(inode) ==
    \/ /\ inode = ROOT_INODE
       /\ UNCHANGED <<inodes, children, next_inode>>
       /\ last' = [op |-> "remove", inode |-> inode, panic |-> TRUE, data |-> None,
                   gone |-> {}]
    \/ LET r == remove(Mapper, inode)
       IN /\ SetMapper(r.m)
          /\ last' = [op |-> "remove", inode |-> inode, panic |-> FALSE, data |-> r.data,
                      gone |-> DOMAIN inodes \ DOMAIN r.m.inodes]

Resolve(inode) ==
    /\ UNCHANGED <<inodes, children, next_inode>>
    /\ last' = [op |-> "resolve", kind |-> resolve(Mapper, inode).kind]

InsertChildOp ==
    /\ Running
    /\ UNCHANGED <<th, poisoned, kref, dirmap_iter>>
    /\ \E parent \in InodeIds, child \in Names, vc \in MapperCreators :
           InsertChild(parent, child, vc)

InsertChildrenOp ==
    /\ Running
    /\ UNCHANGED <<th, poisoned, kref, dirmap_iter>>
    /\ \E parent \in InodeIds, list \in ChildLists : InsertChildren(parent, list)

BatchInsertOp ==
    /\ Running
    /\ UNCHANGED <<th, poisoned, kref, dirmap_iter>>
    /\ \E parent \in InodeIds, entries \in BatchLists :
           BatchInsert(parent, entries, AddChildrenCreator(FALSE))

RenameOp ==
    /\ Running
    /\ UNCHANGED <<th, poisoned, kref, dirmap_iter>>
    /\ \E parent \in InodeIds, oldname \in Names, newparent \in InodeIds, newname \in Names :
           Rename(parent, oldname, newparent, newname)

RemoveOp ==
    /\ Running
    /\ UNCHANGED <<th, poisoned, kref, dirmap_iter>>
    /\ \E inode \in InodeIds : Remove(inode)

ResolveOp ==
    /\ Running
    /\ UNCHANGED <<th, poisoned, kref, dirmap_iter>>
    /\ \E inode \in InodeIds : Resolve(inode)

Next ==
    \/ InsertChildOp
    \/ InsertChildrenOp
    \/ BatchInsertOp
    \/ RenameOp
    \/ RemoveOp
    \/ ResolveOp

vars == <<inodes, children, next_inode, last, th, poisoned, kref, dirmap_iter>>

Spec == Init /\ [][Next]_vars

\* ----------------------------------------------------- mapper structure

\* Every edge of a child index leads to a live inode whose record names that
\* edge, under a live parent. (This is what makes the iteration order of the
\* cascade in remove, and the unwrap in lookup, harmless.)
EdgesConsistent ==
    \A p \in DOMAIN children : \A n \in DOMAIN children[p] :
        /\ p \in DOMAIN inodes
        /\ children[p][n] \in DOMAIN inodes
        /\ inodes[children[p][n]].parent = p
        /\ inodes[children[p][n]].name = n

\* ------------------------------------------------- ComponentsResolver
\* mapper: RwLock<InodeMapper<AtomicU64>>. A section under the read lock
\* reads the maps and does one atomic operation on one counter, so it is one
\* step; a section under the write lock excludes every other section, so it
\* is one step. A call that leaves the read lock and then takes the write
\* lock (lookup on a miss, forget on a zero) is two steps, and other threads
\* may run between them.
\*
\* An AtomicU64 value is kept as the integer v congruent to it modulo 2^64
\* with |v| small: a negative v is the wrapped value 2^64 + v.

\* AtomicU64::fetch_add / fetch_sub (wrapping): the new value
fetch_add(v, n) == v + n
fetch_sub_one_only(v, n) == v - 1
fetch_sub(v, n) == v - n
\* v > 0 on the unsigned value
U64GreaterThanZero(v) == v # 0
\* count + 1 overflows (u64::MAX + 1)
U64AddOverflows(v) == v = -1

CountersInBounds(M) ==
    \A i \in DOMAIN M.inodes : M.inodes[i].data >= -MaxWrap /\ M.inodes[i].data <= MaxRef

\* A reader that never returns (resolve on a cycle) keeps the read lock.
ReadLockStuck == \E t \in Threads : th[t].pc = "hung"
\* read() / write() succeed: a poisoned lock makes every unwrap()/expect() panic.
CanRead == ~poisoned
CanWrite == ~poisoned /\ ~ReadLockStuck
\* thread t is inside no request
AtRest(t) == th[t].pc = "idle"

\* Where a thread goes on when resolver.lookup returns inode to it: on to
\* resolve_id inside an entry request, out of the call otherwise.
Return(req, inode) ==
    IF req = "entry"
    THEN [pc |-> "entry_resolve", parent |-> NoInode, name |-> RootName, incr |-> FALSE,
          ino |-> inode, req |-> req]
    ELSE [pc |-> "idle", parent |-> NoInode, name |-> RootName, incr |-> FALSE,
          ino |-> NoInode, req |-> "call"]

\* A call that panics ends: its thread runs no further step of it.
Panicked == Idle
\* last after a resolver step other than a forget that returns early
ResolverStep == [op |-> "resolver"]
Hung == [Idle EXCEPT !.pc = "hung"]

\* last after a step of a lookup call. For the calls of the specification
\* of concurrent lookups (req = "lookups") it tells the edge asked for, the
\* section that ran (via), whether that section found the edge there, and
\* the inode returned (NoInode while the call has not returned).
LookupStep(req, parent, name, incr, via, found, ret) ==
    IF req = "lookups"
    THEN [op |-> "resolver_lookup", parent |-> parent, name |-> name, incr |-> incr,
          via |-> via, found |-> found, ret |-> ret]
    ELSE ResolverStep

\* ComponentsResolver::lookup, the read-locked section: on a hit, add to the
\* counter and return; on a miss go on to the write lock.
LookupReadSection(t, parent, child, incr, req) ==
    LET found == lookup(Mapper, parent, child)
    IN /\ CanRead
       /\ UNCHANGED <<children, next_inode, poisoned>>
       /\ IF found # NoInode
          THEN /\ inodes' = IF incr
                            THEN [inodes EXCEPT ![found].data = fetch_add(@, 1)]
                            ELSE inodes
               /\ CountersInBounds(Mapper')
               /\ th' = [th EXCEPT ![t] = Return(req, found)]
               /\ last' = LookupStep(req, parent, child, incr, "read", TRUE, found)
          ELSE /\ inodes' = inodes
               /\ next_inode <= MaxInode
               /\ th' = [th EXCEPT ![t] = [pc |-> "lookup_write", parent |-> parent,
                                           name |-> child, incr |-> incr,
                                           ino |-> NoInode, req |-> req]]
               /\ last' = LookupStep(req, parent, child, incr, "read", FALSE, NoInode)

\* ComponentsResolver::lookup called on its own
ResolverLookup(t, parent, child, incr) ==
    /\ AtRest(t)
    /\ LookupReadSection(t, parent, child, incr, "call")

\* ComponentsResolver::lookup, the write-locked insert_child(...).expect(...)
ResolverLookupWrite(t) ==
    LET c == th[t]
        r == insert_child(Mapper, c.parent, c.name, LookupCreator(c.incr))
    IN /\ c.pc = "lookup_write"
       /\ CanWrite
       /\ InBounds(r.m)
       /\ SetMapper(r.m)
       /\ IF r.ok
          THEN /\ th' = [th EXCEPT ![t] = Return(c.req, r.inode)]
               /\ poisoned' = poisoned
               /\ last' = LookupStep(c.req, c.parent, c.name, c.incr, "write",
                                     lookup(Mapper, c.parent, c.name) # NoInode, r.inode)
          ELSE /\ th' = [th EXCEPT ![t] = Panicked]
               /\ poisoned' = TRUE
               /\ last' = LookupStep(c.req, c.parent, c.name, c.incr, "write",
                                     FALSE, NoInode)

\* The position of the first entry of an add_children call whose count + 1
\* overflows, or 0: the entry names an existing child whose counter, after the
\* earlier entries of the same name, is u64::MAX.
AddChildrenOverflowAt(M, parent, names, incr) ==
    LET at == {k \in DOMAIN names :
                 /\ incr
                 /\ lookup(M, parent, names[k]) # NoInode
                 /\ U64AddOverflows(M.inodes[lookup(M, parent, names[k])].data
                                    + Cardinality({j \in 1..(k - 1) : names[j] = names[k]}))}
    IN IF at = {} THEN 0 ELSE CHOOSE k \in at : \A j \in at : k <= j

\* every entry counted, whatever increment says
AddChildrenEntriesCounted(names, incr) ==
    [k \in DOMAIN names |-> Entry(names[k], AddChildrenCreator(TRUE))]
\* add_children: one creator per name, all with the call's increment
AddChildrenEntries(names, incr) ==
    [k \in DOMAIN names |-> Entry(names[k], AddChildrenCreator(incr))]

\* ComponentsResolver::add_children: insert_children(...).expect(...) under
\* the write lock, zipped with the names. count + 1 on u64::MAX panics where
\* overflow checks are on (the lock is then poisoned, the earlier entries
\* done) and wraps where they are off.
ResolverAddChildren(t, parent, names, incr) ==
    LET ovf == AddChildrenOverflowAt(Mapper, parent, names, incr)
        r == insert_children(Mapper, parent, AddChildrenEntries(names, incr))
        part == insert_children(Mapper, parent,
                                AddChildrenEntries(SubSeq(names, 1, ovf - 1), incr))
    IN /\ AtRest(t)
       /\ CanWrite
       /\ \/ /\ r.ok
             /\ InBounds(r.m)
             /\ CountersInBounds(r.m)
             /\ SetMapper(r.m)
             /\ UNCHANGED <<th, poisoned>>
             /\ last' = ResolverStep
          \/ /\ ~r.ok
             /\ UNCHANGED <<inodes, children, next_inode>>
             /\ th' = [th EXCEPT ![t] = Panicked]
             /\ poisoned' = TRUE
             /\ last' = ResolverStep
          \/ /\ r.ok
             /\ ovf # 0
             /\ InBounds(part.m)
             /\ SetMapper(part.m)
             /\ th' = [th EXCEPT ![t] = Panicked]
             /\ poisoned' = TRUE
             /\ last' = ResolverStep

\* `fetch_sub(nlookup, SeqCst) > 0` of forget: the counter before the
\* subtraction says whether the call returns without removing.
forget_returns_early(pre, nlookup) == U64GreaterThanZero(pre)

\* ComponentsResolver::forget, the read-locked section
ForgetReadSection(t, ino, nlookup) ==
    /\ CanRead
    /\ UNCHANGED <<children, next_inode, poisoned>>
    /\ IF get(Mapper, ino) = None
       THEN \* expect("Failed to find inode") panics; a read guard does not poison
            /\ inodes' = inodes
            /\ th' = [th EXCEPT ![t] = Panicked]
            /\ last' = ResolverStep
       ELSE LET pre == inodes[ino].data
            IN /\ inodes' = [inodes EXCEPT ![ino].data = fetch_sub(pre, nlookup)]
               /\ CountersInBounds(Mapper')
               /\ IF forget_returns_early(pre, nlookup)
                  THEN /\ th' = [th EXCEPT ![t] = Idle]
                       /\ last' = [op |-> "forget", path |-> "read",
                                   ino |-> ino, n |-> nlookup, pre |-> pre]
                  ELSE /\ th' = [th EXCEPT ![t] = [Idle EXCEPT !.pc = "forget_write",
                                                               !.ino = ino]]
                       /\ last' = ResolverStep

\* ComponentsResolver::forget called on its own
ResolverForget(t, ino, nlookup) ==
    /\ AtRest(t)
    /\ ForgetReadSection(t, ino, nlookup)

\* ComponentsResolver::forget, self.mapper.write().unwrap().remove(&inode).unwrap()
ResolverForgetWrite(t) ==
    LET c == th[t]
        r == remove(Mapper, c.ino)
    IN /\ c.pc = "forget_write"
       /\ CanWrite
       /\ \/ \* remove(ROOT) panics where debug assertions are on, and
             \* unwrap() panics on None
             /\ c.ino = ROOT_INODE \/ r.data = None
             /\ UNCHANGED <<inodes, children, next_inode>>
             /\ th' = [th EXCEPT ![t] = Panicked]
             /\ poisoned' = TRUE
             /\ last' = ResolverStep
          \/ /\ r.data # None
             /\ SetMapper(r.m)
             /\ th' = [th EXCEPT ![t] = Idle]
             /\ poisoned' = poisoned
             /\ last' = ResolverStep

\* ComponentsResolver::rename: mapper.rename(...).expect(...) under the write lock
ResolverRename(t, parent, name, newparent, newname) ==
    LET r == rename(Mapper, parent, name, newparent, newname)
    IN /\ AtRest(t)
       /\ CanWrite
       /\ SetMapper(r.m)
       /\ IF r.ok
          THEN /\ UNCHANGED <<th, poisoned>>
               /\ last' = ResolverStep
          ELSE /\ th' = [th EXCEPT ![t] = Panicked]
               /\ poisoned' = TRUE
               /\ last' = ResolverStep

\* ComponentsResolver::resolve_id: resolve(...).expect(...) under the read lock
ResolverResolveId(t, ino) ==
    LET r == resolve(Mapper, ino)
    IN /\ AtRest(t)
       /\ CanRead
       /\ UNCHANGED <<inodes, children, next_inode, poisoned>>
       /\ IF r.kind = "some"
          THEN /\ th' = th
               /\ last' = ResolverStep
          ELSE IF r.kind = "none"
          THEN /\ th' = [th EXCEPT ![t] = Panicked]
               /\ last' = ResolverStep
          ELSE /\ th' = [th EXCEPT ![t] = Hung]
               /\ last' = ResolverStep

NameLists == {<<>>, <<"a">>, <<"b">>, <<"a", "b">>, <<"a", "a">>}

LookupCall ==
    /\ UNCHANGED <<kref, dirmap_iter>>
    /\ \E t \in Threads, parent \in InodeIds, child \in Names, incr \in BOOLEAN :
        ResolverLookup(t, parent, child, incr)
LookupWriteStep ==
    /\ UNCHANGED <<kref, dirmap_iter>>
    /\ \E t \in Threads : ResolverLookupWrite(t)
AddChildrenCall ==
    /\ UNCHANGED <<kref, dirmap_iter>>
    /\ \E t \in Threads, parent \in InodeIds, names \in NameLists, incr \in BOOLEAN :
        ResolverAddChildren(t, parent, names, incr)
ForgetCall ==
    /\ UNCHANGED <<kref, dirmap_iter>>
    /\ \E t \in Threads, ino \in InodeIds, nlookup \in 0..MaxForget :
        ResolverForget(t, ino, nlookup)
ForgetWriteStep ==
    /\ UNCHANGED <<kref, dirmap_iter>>
    /\ \E t \in Threads : ResolverForgetWrite(t)

RECURSIVE InSubtree(_, _, _, _)
\* at lies in the subtree of ino (ino included): parent links from at lead to ino
InSubtree(M, ino, at, steps) ==
    \/ at = ino
    \/ /\ steps > 0
       /\ at \in DOMAIN M.inodes
       /\ M.inodes[at].parent # at
       /\ InSubtree(M, ino, M.inodes[at].parent, steps - 1)

\* The kernel refuses to move a directory into its own subtree before the
\* request reaches the filesystem, so the resolver is not asked to.
RenameIntoOwnSubtree(M, parent, name, newparent) ==
    /\ lookup(M, parent, name) # NoInode
    /\ InSubtree(M, lookup(M, parent, name), newparent, Cardinality(DOMAIN M.inodes))

RenameCall ==
    /\ UNCHANGED <<kref, dirmap_iter>>
    /\ \E t \in Threads, parent \in InodeIds, name \in Names,
       newparent \in InodeIds, newname \in Names :
        /\ ~RenameIntoOwnSubtree(Mapper, parent, name, newparent)
        /\ ResolverRename(t, parent, name, newparent, newname)
ResolveIdCall ==
    /\ UNCHANGED <<kref, dirmap_iter>>
    /\ \E t \in Threads, ino \in InodeIds : ResolverResolveId(t, ino)

NextResolver ==
    \/ LookupCall
    \/ LookupWriteStep
    \/ AddChildrenCall
    \/ ForgetCall
    \/ ForgetWriteStep
    \/ ResolveIdCall

SpecResolver == Init /\ [][NextResolver]_vars

\* ------------------------------------------------ calls under a fair lock
\* All five operations of the resolver, called by the threads in any order.
\* The RwLock is fair: a thread that waits for the write lock gets it once
\* the lock is free, which it is between any two sections. A call whose
\* write() finds the lock poisoned panics at its unwrap()/expect(): it ends
\* without running its section.

\* thread t is between the read-locked and the write-locked section of a call
AwaitsWrite(t) == th[t].pc \in {"lookup_write", "forget_write"}

\* write().expect("Failed to acquire write lock") / write().unwrap() on a
\* poisoned lock
PoisonedWrite(t) ==
    /\ AwaitsWrite(t)
    /\ poisoned
    /\ UNCHANGED <<inodes, children, next_inode, poisoned>>
    /\ th' = [th EXCEPT ![t] = Panicked]
    /\ last' = ResolverStep

PoisonedWriteStep ==
    /\ UNCHANGED <<kref, dirmap_iter>>
    /\ \E t \in Threads : PoisonedWrite(t)

\* Inode numbers stay within MaxInode: a call that may allocate starts only
\* when a number is left for it and for every call that waits to insert.
RoomForWaiting ==
    next_inode + Cardinality({t \in Threads : th[t].pc = "lookup_write"}) <= MaxInode + 1

\* The calls count no reference (increment = false): what the counters hold
\* has no part in who gets the lock.
LiveIncrements == {FALSE}

LiveLookupCall ==
    /\ UNCHANGED <<kref, dirmap_iter>>
    /\ \E t \in Threads, parent \in InodeIds, child \in Names, incr \in LiveIncrements :
        ResolverLookup(t, parent, child, incr)
    /\ RoomForWaiting'
LiveAddChildrenCall ==
    /\ UNCHANGED <<kref, dirmap_iter>>
    /\ \E t \in Threads, parent \in InodeIds, names \in NameLists, incr \in LiveIncrements :
        ResolverAddChildren(t, parent, names, incr)
    /\ RoomForWaiting'
\* rename with any arguments: the resolver takes what it is given
LiveRenameCall ==
    /\ UNCHANGED <<kref, dirmap_iter>>
    /\ \E t \in Threads, parent \in InodeIds, name \in Names,
       newparent \in InodeIds, newname \in Names :
        ResolverRename(t, parent, name, newparent, newname)

NextLive ==
    \/ LiveLookupCall
    \/ LookupWriteStep
    \/ LiveAddChildrenCall
    \/ ForgetCall
    \/ ForgetWriteStep
    \/ LiveRenameCall
    \/ ResolveIdCall
    \/ PoisonedWriteStep

\* The fair lock: a section that waits for the write lock is run.
FairLock ==
    \A t \in Threads :
        /\ WF_vars(ResolverLookupWrite(t) /\ UNCHANGED <<kref, dirmap_iter>>)
        /\ WF_vars(ResolverForgetWrite(t) /\ UNCHANGED <<kref, dirmap_iter>>)
        /\ WF_vars(PoisonedWrite(t) /\ UNCHANGED <<kref, dirmap_iter>>)

SpecLive == Init /\ [][NextLive]_vars /\ FairLock

\* Concurrent lookup calls and nothing else: every thread calls
\* ComponentsResolver::lookup, for any edge, again and again.
ConcurrentLookup(t, parent, child, incr) ==
    /\ AtRest(t)
    /\ LookupReadSection(t, parent, child, incr, "lookups")

ConcurrentLookupCall ==
    /\ UNCHANGED <<kref, dirmap_iter>>
    /\ \E t \in Threads, parent \in InodeIds, child \in Names, incr \in BOOLEAN :
        ConcurrentLookup(t, parent, child, incr)

NextLookups ==
    \/ ConcurrentLookupCall
    \/ LookupWriteStep

SpecLookups == Init /\ [][NextLookups]_vars

\* ---------------------------------------------------------- dispatcher
\* handle_fuse_reply_entry, run by a worker thread for lookup, create, mkdir,
\* mknod, symlink and link. The handler's answers (the operation itself and
\* post_lookup) are inputs. The kernel takes one lookup reference on the inode
\* of every entry reply, and gives references back with forget.

ReplyError == [op |-> "reply", kind |-> "error", ino |-> NoInode]
ReplyEntry(ino) == [op |-> "reply", kind |-> "entry", ino |-> ino]

\* the lookup made although the handler failed
EntryHandlerErrLooksUp(t, parent, name) ==
    LookupReadSection(t, parent, name, TRUE, "entry")

\* The Err arm of the handler call: log, reply.error(e.raw_error()), return.
EntryHandlerErr(t, parent, name) ==
    /\ UNCHANGED <<inodes, children, next_inode, th, poisoned>>
    /\ last' = ReplyError

\* The handler call; on Err reply.error and return, on Ok go into
\* resolver.lookup(parent, name, id, true).
HandleEntry(t, parent, name, handler_ok) ==
    /\ AtRest(t)
    /\ kref' = kref
    /\ IF handler_ok
       THEN LookupReadSection(t, parent, name, TRUE, "entry")
       ELSE EntryHandlerErr(t, parent, name)

\* resolver.resolve_id(ino), then handler.post_lookup: on Ok reply.entry, on
\* Err go into resolver.forget(ino, 1).
EntryResolve(t, post_ok) ==
    LET c == th[t]
        r == resolve(Mapper, c.ino)
    IN /\ c.pc = "entry_resolve"
       /\ CanRead
       /\ UNCHANGED <<inodes, children, next_inode, poisoned>>
       /\ IF r.kind = "some"
          THEN IF post_ok
               THEN /\ kref' = [kref EXCEPT ![c.ino] = @ + 1]
                    /\ kref'[c.ino] <= MaxRef
                    /\ th' = [th EXCEPT ![t] = Idle]
                    /\ last' = ReplyEntry(c.ino)
               ELSE /\ kref' = kref
                    /\ th' = [th EXCEPT ![t] = [c EXCEPT !.pc = "entry_rollback"]]
                    /\ last' = ResolverStep
          ELSE IF r.kind = "none"
          THEN /\ kref' = kref
               /\ th' = [th EXCEPT ![t] = Panicked]
               /\ last' = ResolverStep
          ELSE /\ kref' = kref
               /\ th' = [th EXCEPT ![t] = Hung]
               /\ last' = ResolverStep

\* resolver.forget(ino, 1) after a failed post_lookup; reply.error follows.
EntryRollback(t) ==
    /\ th[t].pc = "entry_rollback"
    /\ kref' = kref
    /\ ForgetReadSection(t, th[t].ino, 1)

\* A forget request of the kernel, which gives back n of the references it
\* holds on ino: the dispatcher calls resolver.forget(ino, n).
KernelForget(t, ino, n) ==
    /\ AtRest(t)
    /\ n <= kref[ino]
    /\ kref' = [kref EXCEPT ![ino] = @ - n]
    /\ ForgetReadSection(t, ino, n)

EntryCall ==
    /\ UNCHANGED dirmap_iter
    /\ \E t \in Threads, parent \in InodeIds, name \in Names, handler_ok \in BOOLEAN :
        HandleEntry(t, parent, name, handler_ok)
EntryResolveStep ==
    /\ UNCHANGED dirmap_iter
    /\ \E t \in Threads, post_ok \in BOOLEAN : EntryResolve(t, post_ok)
EntryRollbackStep ==
    /\ UNCHANGED dirmap_iter
    /\ \E t \in Threads : EntryRollback(t)
KernelForgetCall ==
    /\ UNCHANGED dirmap_iter
    /\ \E t \in Threads, ino \in InodeIds, n \in 1..MaxForget : KernelForget(t, ino, n)

NextDispatch ==
    \/ EntryCall
    \/ LookupWriteStep
    \/ EntryResolveStep
    \/ EntryRollbackStep
    \/ KernelForgetCall
    \/ ForgetWriteStep

SpecDispatch == Init /\ [][NextDispatch]_vars

\* ------------------------------------------------------------- readdir
\* handle_dir_read, for readdir (plus = FALSE) and readdirplus (plus = TRUE).
\* The handler's answer and the room left in the reply buffer are inputs.
\* An entry of a directory iterator is [name, ino]; an emitted entry carries
\* the offset reply.add was given for it.

\* What the handler may answer: an error, or a list of names.
DirListings ==
    {<<>>, <<"a", "b">>, <<"b", "a", "b">>, <<"a", "b", "a", "b", "a">>}
DirAnswers == {[ok |-> FALSE, names |-> <<>>]} \cup {[ok |-> TRUE, names |-> l] : l \in DirListings}
Offsets == (-1)..MaxOffset

\* the refused entry not put back
push_front_dropped(queue, entry) == queue
\* dir_iter.push_front(entry)
push_front(queue, entry) == <<entry>> \o queue

RECURSIVE dir_read_loop(_, _, _, _)
\* the `while let Some(..) = dir_iter.pop_front()` loop: reply.add takes an
\* entry while there is room; the first one it refuses is pushed back and the
\* loop breaks (full); new_offset counts the entries taken.
dir_read_loop(dir_iter, new_offset, room, out) ==
    IF dir_iter = <<>>
    THEN [out |-> out, new_offset |-> new_offset, rest |-> <<>>, full |-> FALSE]
    ELSE LET e == Head(dir_iter)
             popped == Tail(dir_iter)
         IN IF room = 0
            THEN [out |-> out, new_offset |-> new_offset,
                  rest |-> push_front(popped, e), full |-> TRUE]
            ELSE dir_read_loop(popped, new_offset + 1, room - 1,
                               Append(out, [name |-> e.name, ino |-> e.ino,
                                            offset |-> new_offset]))

\* the key one past the last emitted entry
readdir_key_past_last(dir_ino, entry_ino, new_offset) == <<dir_ino, new_offset>>
\* readdir: dirmap_iter.insert(($ino, new_offset - 1), dir_iter)
readdir_key(dir_ino, entry_ino, new_offset) == <<dir_ino, new_offset - 1>>
\* readdirplus: dirmap_iter.insert((ino, new_offset - 1), dir_iter), where ino
\* is the binding of the loop: the inode of the refused entry
readdirplus_key(dir_ino, entry_ino, new_offset) == <<entry_ino, new_offset - 1>>

\* "Process directory entries": drain dir_iter into the reply, store what is
\* left. The result: the emitted entries, the store, the key used (or None).
dir_read_process(store, plus, ino, offset, room, dir_iter) ==
    LET d == dir_read_loop(dir_iter, offset, room, <<>>)
        key == IF plus THEN readdirplus_key(ino, Head(d.rest).ino, d.new_offset)
               ELSE readdir_key(ino, Head(d.rest).ino, d.new_offset)
    IN IF d.full
       THEN [entries |-> d.out, store |-> MapPut(store, key, d.rest), key |-> Some(key)]
       ELSE [entries |-> d.out, store |-> store, key |-> None]

\* "Initialize directory iterator" at offset 0: resolve_id(ino), the handler
\* call, add_children. The outcomes: the iterator (ok), an error reply, or a
\* panic; count + 1 on u64::MAX panics or wraps with the build.
dir_read_first(M, plus, ino, answer) ==
    LET ovf == AddChildrenOverflowAt(M, ino, answer.names, plus)
        r == insert_children(M, ino, AddChildrenEntries(answer.names, plus))
        part == insert_children(M, ino,
                                AddChildrenEntries(SubSeq(answer.names, 1, ovf - 1), plus))
        iter == [k \in DOMAIN answer.names |-> [name |-> answer.names[k], ino |-> r.inodes[k]]]
        done == [m |-> r.m, kind |-> "ok", iter |-> iter, poison |-> FALSE]
    IN IF resolve(M, ino).kind # "some"
       THEN {[m |-> M, kind |-> "panic", iter |-> <<>>, poison |-> FALSE]}
       ELSE IF ~answer.ok
       THEN {[m |-> M, kind |-> "error", iter |-> <<>>, poison |-> FALSE]}
       ELSE IF ~r.ok
       THEN {[m |-> M, kind |-> "panic", iter |-> <<>>, poison |-> TRUE]}
       ELSE IF ovf # 0
       THEN {done, [m |-> part.m, kind |-> "panic", iter |-> <<>>, poison |-> TRUE]}
       ELSE {done}

\* no offset turned away
offset_rejected_never(offset) == FALSE
\* "Validate offset": if $offset < 0
offset_rejected(offset) == offset < 0

\* a missing cursor made up for by any cursor the store holds
dir_read_resume_any(store, ino, offset) ==
    IF DOMAIN store = {}
    THEN [found |-> FALSE, iter |-> <<>>, store |-> store]
    ELSE LET k == CHOOSE k \in DOMAIN store : TRUE
         IN [found |-> TRUE, iter |-> store[k], store |-> MapDel(store, k)]
\* "Subsequent reads": dirmap_iter.remove(&($ino, $offset))
dir_read_resume(store, ino, offset) ==
    IF <<ino, offset>> \in DOMAIN store
    THEN [found |-> TRUE, iter |-> store[<<ino, offset>>], store |-> MapDel(store, <<ino, offset>>)]
    ELSE [found |-> FALSE, iter |-> <<>>, store |-> store]

\* The call continues the listing the last call served and left unfinished:
\* same kind of request, same directory, and the offset the kernel resumes
\* from, which is the offset of the last entry it was given.
ContinuesLast(plus, ino, offset) ==
    /\ last.op = "readdir"
    /\ last.plus = plus
    /\ last.ino = ino
    /\ last.reply = "ok"
    /\ last.chain
    /\ last.key # None
    /\ last.entries # <<>>
    /\ offset = last.entries[Len(last.entries)].offset

\* last after a handle_dir_read: the request, the room its reply buffer had,
\* the reply, the emitted entries, the key a cursor was stored under, and
\* for a call that continues a listing begun at offset 0 (chain) the
\* handler's list and what was served of it so far.
DirReply(plus, ino, offset, room, reply, entries, key, chain, listing, served) ==
    [op |-> "readdir", plus |-> plus, ino |-> ino, offset |-> offset, room |-> room,
     reply |-> reply, entries |-> entries, key |-> key, chain |-> chain,
     listing |-> listing, served |-> served]

DirNoEntries(plus, ino, offset, room, reply) ==
    DirReply(plus, ino, offset, room, reply, <<>>, None, FALSE, <<>>, <<>>)

\* the entries without the offsets they were emitted under
Bare(entries) == [k \in DOMAIN entries |-> [name |-> entries[k].name, ino |-> entries[k].ino]]

\* handle_dir_read, one whole request
HandleDirRead(plus, ino, offset, room, answer) ==
    /\ UNCHANGED <<th, kref>>
    /\ IF offset_rejected(offset)
       THEN \* "readdir called with a negative offset"
            /\ UNCHANGED <<inodes, children, next_inode, poisoned, dirmap_iter>>
            /\ last' = DirNoEntries(plus, ino, offset, room, "InvalidArgument")
       ELSE IF offset = 0
       THEN /\ ~poisoned
            /\ \E f \in dir_read_first(Mapper, plus, ino, answer) :
                 /\ InBounds(f.m)
                 /\ CountersInBounds(f.m)
                 /\ SetMapper(f.m)
                 /\ poisoned' = f.poison
                 /\ IF f.kind = "ok"
                    THEN LET p == dir_read_process(dirmap_iter[plus], plus, ino, offset,
                                                   room, f.iter)
                         IN /\ dirmap_iter' = [dirmap_iter EXCEPT ![plus] = p.store]
                            /\ last' = DirReply(plus, ino, offset, room, "ok", p.entries,
                                                p.key, TRUE, f.iter, Bare(p.entries))
                    ELSE /\ dirmap_iter' = dirmap_iter
                         /\ last' = DirNoEntries(plus, ino, offset, room, f.kind)
       ELSE LET c == dir_read_resume(dirmap_iter[plus], ino, offset)
                p == dir_read_process(c.store, plus, ino, offset, room, c.iter)
                chain == ContinuesLast(plus, ino, offset)
            IN /\ UNCHANGED <<inodes, children, next_inode, poisoned>>
               /\ dirmap_iter' = [dirmap_iter EXCEPT ![plus] = p.store]
               /\ last' = DirReply(plus, ino, offset, room, "ok", p.entries, p.key, chain,
                                   IF chain THEN last.listing ELSE <<>>,
                                   IF chain THEN last.served \o Bare(p.entries)
                                   ELSE Bare(p.entries))
    /\ \A plus2 \in BOOLEAN : Cardinality(DOMAIN dirmap_iter'[plus2]) <= MaxCursors

\* The handler is asked at offset 0 only, and the reply buffer is used at
\* offsets from 0 on only: elsewhere one value stands for all.
DirAnswersAt(offset) == IF offset = 0 THEN DirAnswers ELSE {[ok |-> FALSE, names |-> <<>>]}
RoomsAt(offset) == IF offset < 0 THEN {MinFit} ELSE MinFit..MaxFit

ReaddirCall ==
    \E ino \in InodeIds, offset \in Offsets :
        \E room \in RoomsAt(offset), answer \in DirAnswersAt(offset) :
            HandleDirRead(FALSE, ino, offset, room, answer)
ReaddirPlusCall ==
    \E ino \in InodeIds, offset \in Offsets :
        \E room \in RoomsAt(offset), answer \in DirAnswersAt(offset) :
            HandleDirRead(TRUE, ino, offset, room, answer)

NextReaddir ==
    \/ ReaddirCall
    \/ ReaddirPlusCall

SpecReaddir == Init /\ [][NextReaddir]_vars

\* ----------------------------------------------- listings in progress
\* The kernel lists a directory through a file handle: readdir (or
\* readdirplus) at offset 0, then again at the offset of the last entry it
\* was given, until a reply brings no entry. Several handles may be open at
\* once, on the same directory too; their requests come in any order and
\* each is one whole handle_dir_read. What the kernel holds for each handle
\* is kept in last.open. The directory listed is the root, the one
\* directory every mapper has; a listing is made of readdir requests or of
\* readdirplus requests (plus).
FileHandles == 1..MaxHandles
ListedDirs == {ROOT_INODE}
ListingKinds == BOOLEAN

\* A handle with no listing begun.
NoListing == [state |-> "closed", plus |-> FALSE, ino |-> NoInode, listing |-> <<>>,
              served |-> <<>>, offset |-> 0]

\* What the kernel holds for each handle.
Listings == IF last.op = "listing" THEN last.open ELSE [fh \in FileHandles |-> NoListing]

\* last after a request of a listing
ListingReply(fh, reply, entries, open) ==
    [op |-> "listing", fh |-> fh, reply |-> reply, entries |-> entries, open |-> open]

\* The listing after a reply with the given entries: ended by an empty
\* reply, else to be resumed at the offset of the last entry.
ListingAfter(L, entries) ==
    IF entries = <<>> THEN [L EXCEPT !.state = "done"]
    ELSE [L EXCEPT !.state = "reading",
                   !.served = @ \o Bare(entries),
                   !.offset = entries[Len(entries)].offset]

\* handle_dir_read for the next request of the listing on fh: at offset 0
\* when the listing begins, else at the offset the kernel resumes from.
ListingRead(fh, plus, ino, room, answer) ==
    LET L == Listings[fh]
        offset == IF L.state = "closed" THEN 0 ELSE L.offset
    IN /\ UNCHANGED <<th, kref>>
       /\ L.state # "done"
       /\ L.state = "reading" => (plus = L.plus /\ ino = L.ino)
       /\ answer \in DirAnswersAt(offset)
       /\ IF offset = 0
          THEN /\ ~poisoned
               /\ \E f \in dir_read_first(Mapper, plus, ino, answer) :
                    /\ InBounds(f.m)
                    /\ CountersInBounds(f.m)
                    /\ SetMapper(f.m)
                    /\ poisoned' = f.poison
                    /\ IF f.kind = "ok"
                       THEN LET p == dir_read_process(dirmap_iter[plus], plus, ino, offset,
                                                      room, f.iter)
                                begun == [state |-> "reading", plus |-> plus, ino |-> ino,
                                          listing |-> f.iter, served |-> <<>>, offset |-> 0]
                            IN /\ dirmap_iter' = [dirmap_iter EXCEPT ![plus] = p.store]
                               /\ last' = ListingReply(fh, "ok", p.entries,
                                             [Listings EXCEPT ![fh] = ListingAfter(begun, p.entries)])
                       ELSE /\ dirmap_iter' = dirmap_iter
                            /\ last' = ListingReply(fh, f.kind, <<>>,
                                                    [Listings EXCEPT ![fh] = NoListing])
          ELSE LET c == dir_read_resume(dirmap_iter[plus], ino, offset)
                   p == dir_read_process(c.store, plus, ino, offset, room, c.iter)
               IN /\ UNCHANGED <<inodes, children, next_inode, poisoned>>
                  /\ dirmap_iter' = [dirmap_iter EXCEPT ![plus] = p.store]
                  /\ last' = ListingReply(fh, "ok", p.entries,
                                [Listings EXCEPT ![fh] = ListingAfter(L, p.entries)])
       /\ \A plus2 \in BOOLEAN : Cardinality(DOMAIN dirmap_iter'[plus2]) <= MaxHandles
       /\ last'.open[fh].offset <= MaxOffset
       /\ Len(last'.open[fh].served) <= MaxOffset + 1

ListingReadCall ==
    \E fh \in FileHandles, plus \in ListingKinds, ino \in ListedDirs :
        \E room \in MinFit..MaxFit, answer \in DirAnswers :
            ListingRead(fh, plus, ino, room, answer)

NextListings == ListingReadCall

SpecListings == Init /\ [][NextListings]_vars

\* ------------------------------------------- PathResolver, one caller
\* PathResolver wraps a ComponentsResolver. With one caller the two locked
\* sections of lookup and of forget follow each other with nothing between,
\* so a call is one step. The outcome of a call: the mapper after it, how
\* it ended ("ok", "panic", or "hangs" for a resolve that never returns),
\* whether the panic poisoned the lock, and the value returned.
Outcome(M, kind, poison, ret) == [m |-> M, kind |-> kind, poison |-> poison, ret |-> ret]

\* ComponentsResolver::lookup
components_lookup(M, parent, child, incr) ==
    LET found == lookup(M, parent, child)
        r == insert_child(M, parent, child, LookupCreator(incr))
    IN IF found # NoInode
       THEN {Outcome(IF incr THEN [M EXCEPT !.inodes[found].data = fetch_add(@, 1)] ELSE M,
                     "ok", FALSE, found)}
       ELSE IF r.ok
       THEN {Outcome(r.m, "ok", FALSE, r.inode)}
       ELSE {Outcome(M, "panic", TRUE, NoInode)}

\* ComponentsResolver::add_children; the value is the list of (name, inode)
components_add_children(M, parent, names, incr) ==
    LET ovf == AddChildrenOverflowAt(M, parent, names, incr)
        r == insert_children(M, parent, AddChildrenEntries(names, incr))
        part == insert_children(M, parent,
                                AddChildrenEntries(SubSeq(names, 1, ovf - 1), incr))
        pairs == [k \in DOMAIN names |-> [name |-> names[k], ino |-> r.inodes[k]]]
        done == Outcome(r.m, "ok", FALSE, pairs)
    IN IF ~r.ok
       THEN {Outcome(M, "panic", TRUE, <<>>)}
       ELSE IF ovf # 0
       THEN {done, Outcome(part.m, "panic", TRUE, <<>>)}
       ELSE {done}

\* ComponentsResolver::forget
components_forget(M, ino, nlookup) ==
    IF get(M, ino) = None
    THEN {Outcome(M, "panic", FALSE, None)}
    ELSE LET pre == M.inodes[ino].data
             M1 == [M EXCEPT !.inodes[ino].data = fetch_sub(pre, nlookup)]
         IN IF forget_returns_early(pre, nlookup)
            THEN {Outcome(M1, "ok", FALSE, None)}
            ELSE IF ino = ROOT_INODE
            THEN {Outcome(M1, "panic", TRUE, None), Outcome(remove(M1, ino).m, "ok", FALSE, None)}
            ELSE {Outcome(remove(M1, ino).m, "ok", FALSE, None)}

\* ComponentsResolver::rename
components_rename(M, parent, name, newparent, newname) ==
    LET r == rename(M, parent, name, newparent, newname)
    IN IF r.ok THEN {Outcome(r.m, "ok", FALSE, None)}
       ELSE {Outcome(M, "panic", TRUE, None)}

\* ComponentsResolver::resolve_id; the value is the list of names, leaf first
components_resolve_id(M, ino) ==
    LET r == resolve(M, ino)
    IN IF r.kind = "some"
       THEN {Outcome(M, "ok", FALSE, [k \in DOMAIN r.infos |-> r.infos[k].name])}
       ELSE IF r.kind = "none"
       THEN {Outcome(M, "panic", FALSE, <<>>)}
       ELSE {Outcome(M, "hangs", FALSE, <<>>)}

RECURSIVE rev(_)
\* the components in the order they come in
rev_kept(s) == s
\* Iterator::rev
rev(s) == IF s = <<>> THEN <<>> ELSE Append(rev(Tail(s)), Head(s))

\* the component appended with no separator
path_push_unseparated(buf, component) == buf \o component
\* PathBuf::push of a relative component: a separator goes in unless the
\* buffer is empty.
path_push(buf, component) == IF buf = "" THEN component ELSE buf \o "/" \o component

RECURSIVE path_collect(_, _)
\* collect::<PathBuf>(): every component pushed onto an empty path
path_collect(buf, components) ==
    IF components = <<>> THEN buf
    ELSE path_collect(path_push(buf, Head(components)), Tail(components))

\* PathResolver::resolve_id
path_resolve_id(M, ino) ==
    {Outcome(o.m, o.kind, o.poison, path_collect("", rev(o.ret))) :
        o \in components_resolve_id(M, ino)}
\* PathResolver::lookup, add_children, forget, rename: forwarded
path_lookup(M, parent, child, incr) == components_lookup(M, parent, child, incr)
path_add_children(M, parent, names, incr) == components_add_children(M, parent, names, incr)
path_forget(M, ino, nlookup) == components_forget(M, ino, nlookup)
path_rename(M, parent, name, newparent, newname) ==
    components_rename(M, parent, name, newparent, newname)

\* One call of the single caller; nothing follows a poisoned lock (every
\* later call panics on it) or a call that hangs.
PathCall(outcomes, call) ==
    /\ ~poisoned
    /\ last.op = "path" => last.kind # "hangs"
    /\ UNCHANGED <<th, kref, dirmap_iter>>
    /\ \E o \in outcomes :
          /\ InBounds(o.m)
          /\ CountersInBounds(o.m)
          /\ SetMapper(o.m)
          /\ poisoned' = o.poison
          /\ last' = [op |-> "path", call |-> call, kind |-> o.kind, ret |-> o.ret]

PathLookupCall ==
    \E parent \in InodeIds, child \in Names, incr \in BOOLEAN :
        PathCall(path_lookup(Mapper, parent, child, incr),
                 [fn |-> "lookup", parent |-> parent, name |-> child, incr |-> incr])
PathAddChildrenCall ==
    \E parent \in InodeIds, names \in NameLists, incr \in BOOLEAN :
        PathCall(path_add_children(Mapper, parent, names, incr), [fn |-> "add_children"])
PathForgetCall ==
    \E ino \in InodeIds, nlookup \in 1..MaxForget :
        PathCall(path_forget(Mapper, ino, nlookup), [fn |-> "forget"])
PathRenameCall ==
    \E parent \in InodeIds, name \in Names, newparent \in InodeIds, newname \in Names :
        /\ ~RenameIntoOwnSubtree(Mapper, parent, name, newparent)
        /\ PathCall(path_rename(Mapper, parent, name, newparent, newname), [fn |-> "rename"])
PathResolveIdCall ==
    \E ino \in InodeIds :
        PathCall(path_resolve_id(Mapper, ino), [fn |-> "resolve_id", ino |-> ino])

NextPath ==
    \/ PathLookupCall
    \/ PathAddChildrenCall
    \/ PathForgetCall
    \/ PathRenameCall
    \/ PathResolveIdCall

SpecPath == Init /\ [][NextPath]_vars

\* ---------------------------------------------------------------- claims

\* i is the target of no edge of any child index.
Unreachable(M, i) ==
    \A p \in DOMAIN M.children : \A n \in DOMAIN M.children[p] : M.children[p][n] # i

\* A successful rename over a taken destination edge has just happened.
RenamedOver == last.op = "rename" /\ last.err = "" /\ last.displaced # NoInode

\* C1 as claimed: every live non-root inode has a live parent whose child
\* index maps the inode's stored name to the inode itself.
C1_EveryInodeIndexedByParent ==
    \A i \in (DOMAIN inodes) \ {ROOT_INODE} :
        /\ inodes[i].parent \in DOMAIN inodes
        /\ lookup(Mapper, inodes[i].parent, inodes[i].name) = i

\* C1 as the code has it: every edge (p, n) -> i of the child index has p
\* and i live and i's record naming p and n, so every live non-root inode
\* that an edge reaches has a live parent whose index maps the inode's stored
\* name to it. An inode that no edge reaches (one displaced by a rename) is
\* kept in the inode map all the same.
C1_EveryReachedInodeIndexedByParent ==
    /\ \A p \in DOMAIN children : \A n \in DOMAIN children[p] :
           /\ p \in DOMAIN inodes
           /\ children[p][n] \in DOMAIN inodes
           /\ inodes[children[p][n]].parent = p
           /\ inodes[children[p][n]].name = n
    /\ \A i \in (DOMAIN inodes) \ {ROOT_INODE} :
           ~Unreachable(Mapper, i) =>
               /\ inodes[i].parent \in DOMAIN inodes
               /\ lookup(Mapper, inodes[i].parent, inodes[i].name) = i

\* a rename has displaced an inode, which no edge reaches, next to an inode
\* that its parent indexes
C1_Witness ==
    /\ RenamedOver
    /\ last.displaced \in DOMAIN inodes
    /\ Unreachable(Mapper, last.displaced)
    /\ \E i \in (DOMAIN inodes) \ {ROOT_INODE} :
           /\ inodes[i].parent \in DOMAIN inodes
           /\ lookup(Mapper, inodes[i].parent, inodes[i].name) = i

\* C8: rename removes no inode record; after a rename over the taken edge
\* (p', n') of inode d, lookup(p', n') is the renamed inode and d is still
\* there with its data; a record that no edge reaches stays, data unchanged,
\* until remove is called on it.
C8_RenameKeepsDisplaced ==
    [][ /\ (last'.op = "rename" /\ last'.err = "") =>
              /\ DOMAIN inodes' = DOMAIN inodes
              /\ lookup(Mapper', last'.newparent, last'.newname) = last'.child
              /\ last'.displaced # NoInode =>
                    /\ last'.displaced \in DOMAIN inodes'
                    /\ inodes'[last'.displaced].data = inodes[last'.displaced].data
        /\ \A i \in (DOMAIN inodes) \ {ROOT_INODE} :
              (Unreachable(Mapper, i) /\ ~(last'.op = "remove" /\ last'.inode = i)) =>
                    /\ i \in DOMAIN inodes'
                    /\ inodes'[i].data = inodes[i].data ]_vars

C8_Witness ==
    /\ RenamedOver
    /\ last.displaced \in DOMAIN inodes
    /\ last.displaced # last.child
    /\ lookup(Mapper, last.newparent, last.newname) = last.child

\* C9 as claimed: a rename that finds the destination edge taken sets the
\* displaced inode's parent and name to the source values (p, n).
C9_DisplacedGetsSourceValues ==
    [][ (last'.op = "rename" /\ last'.err = "" /\ last'.displaced # NoInode) =>
            /\ inodes'[last'.displaced].parent = last'.parent
            /\ inodes'[last'.displaced].name = last'.name ]_vars

\* C9 as the code has it: the displaced inode's record is left as it was (it
\* still names the destination edge); the renamed inode's parent and name
\* are the ones set, to the destination values (p', n').
C9_DisplacedRecordUntouched ==
    [][ (last'.op = "rename" /\ last'.err = "" /\ last'.displaced # NoInode) =>
            /\ inodes'[last'.displaced] = inodes[last'.displaced]
            /\ inodes'[last'.displaced].parent = last'.newparent
            /\ inodes'[last'.displaced].name = last'.newname
            /\ inodes'[last'.child].parent = last'.newparent
            /\ inodes'[last'.child].name = last'.newname ]_vars

C9_Witness ==
    /\ RenamedOver
    /\ last.displaced \in DOMAIN inodes
    /\ <<inodes[last.displaced].parent, inodes[last.displaced].name>>
           # <<last.parent, last.name>>

RECURSIVE ReachesRoot(_, _, _)
\* following parent links from i reaches the root within steps links.
ReachesRoot(M, i, steps) ==
    \/ i = ROOT_INODE
    \/ /\ steps > 0
       /\ i \in DOMAIN M.inodes
       /\ M.inodes[i].parent # i
       /\ ReachesRoot(M, M.inodes[i].parent, steps - 1)

\* C10: the parent relation is a rooted tree: only the root is its own
\* parent, every live inode reaches the root along parent links, and resolve
\* terminates for every inode.
C10_RootedTree ==
    /\ \A i \in DOMAIN inodes : inodes[i].parent = i => i = ROOT_INODE
    /\ \A i \in DOMAIN inodes : ReachesRoot(Mapper, i, Cardinality(DOMAIN inodes))
    /\ \A i \in InodeIds : resolve(Mapper, i).kind # "diverges"
    /\ ~(last.op = "resolve" /\ last.kind = "diverges")

\* a < b on unsigned 64-bit values (a negative integer is a wrapped value)
U64Less(a, b) == IF (a < 0) = (b < 0) THEN a < b ELSE b < 0

\* C3: forget(i, n) on a live non-root inode whose refcount equals n, when
\* it returns, has removed the inode: get(i) is none.
C3_ForgetToZeroRemoves ==
    [][\A t \in Threads, ino \in InodeIds \ {ROOT_INODE}, n \in 1..MaxForget :
           (/\ ResolverForget(t, ino, n)
            /\ get(Mapper, ino) # None
            /\ inodes[ino].data = n
            /\ th'[t].pc = "idle")
           => get(Mapper', ino) = None]_vars

\* C4: forget(i, n) with n greater than the refcount of i is "remove now":
\* the call goes on to remove the inode, and the counter stops at zero
\* instead of wrapping.
C4_ForgetBeyondCountRemovesAndSaturates ==
    [][\A t \in Threads, ino \in InodeIds \ {ROOT_INODE}, n \in 1..MaxForget :
           (/\ ResolverForget(t, ino, n)
            /\ get(Mapper, ino) # None
            /\ U64Less(inodes[ino].data, n))
           => /\ th'[t].pc = "forget_write"
              /\ inodes'[ino].data = 0]_vars

\* C5: forget(i, n) with n less than the refcount of i returns with i still
\* in the mapper, its refcount reduced by exactly n, and every other inode,
\* edge and refcount as before.
C5_ForgetBelowCountOnlySubtracts ==
    [][\A t \in Threads, ino \in InodeIds, n \in 0..MaxForget :
           (/\ ResolverForget(t, ino, n)
            /\ get(Mapper, ino) # None
            /\ U64Less(n, inodes[ino].data))
           => /\ inodes' = [inodes EXCEPT ![ino].data = inodes[ino].data - n]
              /\ children' = children
              /\ next_inode' = next_inode
              /\ th' = th
              /\ poisoned' = poisoned]_vars

\* a forget(i, n) with 0 < n < refcount has returned, next to other inodes
C5_Witness ==
    /\ last.op = "forget"
    /\ last.n > 0
    /\ U64Less(last.n, last.pre)
    /\ last.ino \in DOMAIN inodes
    /\ inodes[last.ino].data = last.pre - last.n
    /\ Cardinality(DOMAIN inodes) = MaxInode
    /\ \E i \in DOMAIN inodes \ {last.ino} : inodes[i].data > 0

\* C6: a forget never removes an inode whose refcount is not zero at the
\* moment of removal, the forgotten inode's descendants included.
C6_ForgetRemovesOnlyZeroCounts ==
    [][\A t \in Threads :
           (ResolverForgetWrite(t) /\ th[t].ino # ROOT_INODE)
           => \A i \in DOMAIN inodes \ DOMAIN inodes' : inodes[i].data = 0]_vars

\* C7: a lookup(p, c, (), true) that missed under the read lock and finds the
\* row present under the write lock sets the counter to existing + 1.
C7_LateLookupAddsToExisting ==
    [][\A t \in Threads :
           (/\ ResolverLookupWrite(t)
            /\ th[t].incr
            /\ lookup(Mapper, th[t].parent, th[t].name) # NoInode)
           => LET found == lookup(Mapper, th[t].parent, th[t].name)
              IN /\ found \in DOMAIN inodes'
                 /\ inodes'[found].data = inodes[found].data + 1]_vars

\* no request is under way and the lock is sound
Quiescent == ~poisoned /\ \A t \in Threads : AtRest(t)

\* C2: between requests, the refcount stored for a live inode is the number
\* of lookup references the kernel holds on it (one per entry reply, less
\* what forget gave back), and an inode whose count is zero is gone.
C2_RefcountMirrorsKernel ==
    Quiescent =>
        \A i \in DOMAIN inodes \ {ROOT_INODE} :
            /\ inodes[i].data = kref[i]
            /\ kref[i] > 0

\* The names of resolve(inode), from the inode up to the child of the root.
ResolvedNames(M, inode) ==
    LET infos == resolve(M, inode).infos
    IN [k \in DOMAIN infos |-> infos[k].name]

\* C11: after a successful rename(p, n, p', n') of inode x, lookup(p, n) is
\* none unless the two edges are the same, lookup(p', n') is x, x's record
\* has parent p' and name n', and resolve(x) is the path of p' followed by n'.
C11_RenameMovesEdge ==
    [][\A p \in InodeIds, n \in Names, np \in InodeIds, nn \in Names :
           (Rename(p, n, np, nn) /\ rename(Mapper, p, n, np, nn).ok) =>
               LET x == lookup(Mapper, p, n)
               IN /\ (<<p, n>> # <<np, nn>>) => lookup(Mapper', p, n) = NoInode
                  /\ lookup(Mapper', np, nn) = x
                  /\ get(Mapper', x) # None
                  /\ inodes'[x].parent = np
                  /\ inodes'[x].name = nn
                  /\ resolve(Mapper', x).kind = "some"
                  /\ resolve(Mapper', np).kind = "some"
                  /\ ResolvedNames(Mapper', x) = <<nn>> \o ResolvedNames(Mapper', np)]_vars

\* C12: the allocator counter never decreases, every inode that enters the
\* inode map has a number no smaller than the counter before the step, and
\* every live inode's number is below the counter: a number once issued is
\* not issued again, removals and renames included.
C12_InodeNumbersNeverReused ==
    [][/\ next_inode' >= next_inode
       /\ \A i \in (DOMAIN inodes') \ (DOMAIN inodes) : i >= next_inode
       /\ \A i \in DOMAIN inodes' : i < next_inode']_vars

\* an inode has just been materialized while a smaller number, issued
\* before and removed since, stays unused
C12_Witness ==
    /\ last.op = "insert_child"
    /\ last.is_new
    /\ last.inode \in DOMAIN inodes
    /\ \E i \in 2..(last.inode - 1) : i \notin DOMAIN inodes

\* C13: a parent's child index is in the children map only if it is
\* non-empty (an absent index is the empty one).
C13_IndexPresentIffNonEmpty ==
    \A p \in DOMAIN children : DOMAIN children[p] # {}

\* I1 on a mapper
RootIntact(M) ==
    /\ get(M, ROOT_INODE) # None
    /\ M.inodes[ROOT_INODE].parent = ROOT_INODE
    /\ M.inodes[ROOT_INODE].name = RootName

\* C14: the root inode 1 is there from the start, its own parent and named
\* "", and every operation other than remove(ROOT) leaves it so.
C14_RootStays ==
    /\ RootIntact(Mapper)
    /\ [][(RootIntact(Mapper) /\ ~(last'.op = "remove" /\ last'.inode = ROOT_INODE))
              => RootIntact(Mapper')]_vars

\* the root is intact after a non-root inode was removed, in a mapper where
\* some inode is left with a removed parent
C14_Witness ==
    /\ RootIntact(Mapper)
    /\ last.op = "remove"
    /\ last.inode # ROOT_INODE
    /\ last.inode \notin DOMAIN inodes
    /\ last.inode < next_inode
    /\ \E i \in DOMAIN inodes : inodes[i].parent \notin DOMAIN inodes

\* thread t's entry request has just got its inode from resolver.lookup
EntryLookupReturns(t) ==
    /\ th[t].pc \in {"idle", "lookup_write"}
    /\ th'[t].pc = "entry_resolve"

\* C15: when post_lookup fails the dispatcher calls resolver.forget(ino, 1)
\* and no entry reaches the kernel, and the request leaves the refcount of
\* ino as it found it: its lookup added one to the counter (a new inode
\* counting from zero) and its forget takes exactly that one back, the inode
\* staying in the mapper.
C15_RollbackRestoresCount ==
    [][\A t \in Threads :
           /\ EntryLookupReturns(t) =>
                  LET i == th'[t].ino
                      before == IF i \in DOMAIN inodes THEN inodes[i].data ELSE 0
                  IN /\ i \in DOMAIN inodes'
                     /\ inodes'[i].data = before + 1
           /\ EntryRollback(t) =>
                  LET i == th[t].ino
                  IN /\ i \in DOMAIN inodes
                     /\ i \in DOMAIN inodes'
                     /\ inodes'[i].data = inodes[i].data - 1
                     /\ inodes'[i].data >= 0
                     /\ th'[t].pc = "idle"
                     /\ kref' = kref]_vars

\* C16: when the handler method of an entry request returns an error, the
\* dispatcher replies with the error and returns: the thread enters neither
\* resolver.lookup nor post_lookup, no inode is allocated and no refcount
\* changes.
C16_HandlerErrorTouchesNothing ==
    [][\A t \in Threads, parent \in InodeIds, name \in Names :
           HandleEntry(t, parent, name, FALSE) =>
               /\ last' = ReplyError
               /\ inodes' = inodes
               /\ children' = children
               /\ next_inode' = next_inode
               /\ th' = th
               /\ kref' = kref]_vars

\* an error reply while the mapper holds a counted inode the kernel
\* references
C16_Witness ==
    /\ last = ReplyError
    /\ \A t \in Threads : AtRest(t)
    /\ \E i \in (DOMAIN inodes) \ {ROOT_INODE} : inodes[i].data > 0 /\ kref[i] > 0

Min(a, b) == IF a <= b THEN a ELSE b

\* The step is a handle_dir_read request (last' tells which).
DirReadStep(plus) == last'.op = "readdir" /\ last'.plus = plus

\* What a handle_dir_read step that replied OK had to do by the cursor
\* protocol. Its queue is the handler's list at offset 0 and the cursor
\* stored under (ino, offset) later (none: the empty queue). The first k
\* entries, as many as fit, are emitted in order under offsets offset,
\* offset + 1, ...; the cursor used is gone; if an entry was refused, it and
\* what follows is stored under (ino, offset + k - 1), the offset of the last
\* entry emitted, else nothing is stored.
CursorProtocolStep(plus, ino, offset, room) ==
    LET store == dirmap_iter[plus]
        queue == IF offset = 0 THEN last'.listing
                 ELSE IF <<ino, offset>> \in DOMAIN store THEN store[<<ino, offset>>]
                 ELSE <<>>
        k == Min(room, Len(queue))
        used == MapDel(store, <<ino, offset>>)
    IN /\ Bare(last'.entries) = SubSeq(queue, 1, k)
       /\ \A j \in 1..k : last'.entries[j].offset = offset + j - 1
       /\ dirmap_iter'[plus] =
              IF k < Len(queue)
              THEN MapPut(used, <<ino, offset + k - 1>>, SubSeq(queue, k + 1, Len(queue)))
              ELSE used
       /\ last'.key = IF k < Len(queue) THEN Some(<<ino, offset + k - 1>>) ELSE None
       /\ dirmap_iter'[~plus] = dirmap_iter[~plus]

Unserved == SubSeq(last.listing, Len(last.served) + 1, Len(last.listing))

\* The last call belongs to a listing begun at offset 0 and carried on by
\* calls that each found the listing unfinished.
InListing(plus) ==
    /\ last.op = "readdir"
    /\ last.plus = plus
    /\ last.reply = "ok"
    /\ last.chain

\* Over the calls of a listing the entries come in the handler's order, none
\* lost and none twice, the cursor holding exactly what is still to come.
ListingServedInOrder(plus) ==
    InListing(plus) =>
        /\ last.served = SubSeq(last.listing, 1, Len(last.served))
        /\ last.key = None => last.served = last.listing
        /\ last.key # None =>
               /\ last.key[1] \in DOMAIN dirmap_iter[plus]
               /\ dirmap_iter[plus][last.key[1]] = Unserved
               /\ Unserved # <<>>

\* C19 as claimed: after a readdir call of a listing that emitted some entries
\* and stored the rest, the call whose offset is the first call's offset
\* plus the number of entries emitted (40 after 40 entries from offset 0)
\* pops the cursor and emits the next entries.
C19_NextCallAtEntryCount ==
    [][(/\ DirReadStep(FALSE)
        /\ InListing(FALSE)
        /\ last.key # None
        /\ last'.ino = last.ino
        /\ last'.offset = last.offset + Len(last.entries))
           => /\ last'.reply = "ok"
              /\ Bare(last'.entries) = SubSeq(Unserved, 1, Min(last'.room, Len(Unserved)))]_vars

\* C19 as the code has it: the call that continues a listing has the offset
\* of the last entry emitted (39 after 40 entries from offset 0), which is
\* the key of the cursor; it emits the next entries, as many as fit; over the
\* calls the listing is emitted once and in order; a call that finds no
\* cursor replies OK with no entries.
C19_NextCallAtLastOffset ==
    /\ []ListingServedInOrder(FALSE)
    /\ [][(DirReadStep(FALSE) /\ last'.offset > 0) =>
              /\ last'.reply = "ok"
              /\ (/\ InListing(FALSE)
                  /\ last.key # None
                  /\ last'.ino = last.ino
                  /\ last'.offset = last.offset + Len(last.entries) - 1)
                     => /\ last'.chain
                        /\ Bare(last'.entries)
                               = SubSeq(Unserved, 1, Min(last'.room, Len(Unserved)))
              /\ <<last'.ino, last'.offset>> \notin DOMAIN dirmap_iter[FALSE]
                     => /\ last'.entries = <<>>
                        /\ dirmap_iter' = dirmap_iter]_vars

\* the third call of a listing of five entries, two emitted per call before,
\* has emitted the last one
C19_Witness ==
    /\ InListing(FALSE)
    /\ Len(last.listing) = 5
    /\ last.served = last.listing
    /\ last.offset = 2
    /\ Len(last.entries) = 1
    /\ last.key = None
    /\ dirmap_iter[FALSE] = EmptyMap

\* C20: readdirplus follows the same cursor protocol, the cursor of a
\* refused entry being stored under (inode of the directory, new_offset - 1)
\* where the following call on the directory finds it.
C20_ReaddirPlusCursorResumes ==
    [][(DirReadStep(TRUE) /\ last'.reply = "ok")
          => CursorProtocolStep(TRUE, last'.ino, last'.offset, last'.room)]_vars


\* A readdir or readdirplus request has just been answered.
DirRead == last'.op = "readdir"
MapperUnchanged == inodes' = inodes /\ children' = children /\ next_inode' = next_inode

\* C21: a readdir or readdirplus request with a negative offset is answered
\* with InvalidArgument; no entry is emitted and no handler list is taken,
\* and the cursor stores and the mapper are left as they were.
C21_NegativeOffsetRejected ==
    [][(DirRead /\ last'.offset < 0) =>
          /\ last'.reply = "InvalidArgument"
          /\ last'.entries = <<>>
          /\ last'.listing = <<>>
          /\ last'.key = None
          /\ dirmap_iter' = dirmap_iter
          /\ MapperUnchanged
          /\ poisoned' = poisoned]_vars

\* A request with a negative offset was turned away while a cursor was
\* stored and the directory had children.
C21_Witness ==
    /\ last.op = "readdir"
    /\ last.offset < 0
    /\ last.reply = "InvalidArgument"
    /\ \E plus \in BOOLEAN : DOMAIN dirmap_iter[plus] # {}
    /\ last.ino \in DOMAIN children

\* C22: a readdir or readdirplus request with an offset above 0 for which
\* no cursor is stored under (inode, offset) is answered OK with no entries;
\* the cursor stores and the mapper are left as they were.
C22_NoCursorEmptyReply ==
    [][(/\ DirRead
        /\ last'.offset > 0
        /\ <<last'.ino, last'.offset>> \notin DOMAIN dirmap_iter[last'.plus]) =>
          /\ last'.reply = "ok"
          /\ last'.entries = <<>>
          /\ last'.key = None
          /\ dirmap_iter' = dirmap_iter
          /\ MapperUnchanged
          /\ poisoned' = poisoned]_vars

\* A request at an offset above 0 got the empty OK reply while a cursor of
\* its kind was stored under another key.
C22_Witness ==
    /\ last.op = "readdir"
    /\ last.offset > 0
    /\ last.reply = "ok"
    /\ last.entries = <<>>
    /\ DOMAIN dirmap_iter[last.plus] # {}
    /\ <<last.ino, last.offset>> \notin DOMAIN dirmap_iter[last.plus]

\* How many entries of the list carry the name n.
Occurrences(pairs, n) == Cardinality({k \in DOMAIN pairs : pairs[k].name = n})

\* C23: add_children(p, names, incr), as the first read of a directory calls
\* it, returns one (name, inode) pair per entry, and each inode is the one
\* lookup(p, name) maps to afterwards. A child that existed keeps its inode
\* number and has its count raised by one per entry naming it when incr is
\* set, and left as it was otherwise; a new child gets a number not in use
\* and starts at the number of entries naming it when incr is set, else at 0.
C23_AddChildrenPairs ==
    [][(DirRead /\ last'.offset = 0 /\ last'.reply = "ok") =>
          LET p == last'.ino
              pairs == last'.listing
              incr == last'.plus
          IN \A k \in DOMAIN pairs :
                LET n == pairs[k].name
                    i == pairs[k].ino
                    old == lookup(Mapper, p, n)
                    step == IF incr THEN Occurrences(pairs, n) ELSE 0
                IN /\ i # NoInode
                   /\ i = lookup(Mapper', p, n)
                   /\ IF old # NoInode
                      THEN /\ i = old
                           /\ inodes'[i].data = inodes[i].data + step
                      ELSE /\ i \notin DOMAIN inodes
                           /\ i >= next_inode
                           /\ inodes'[i].data = step]_vars

\* readdirplus has just added the children "a", "b" of a directory a second
\* time: both existed with count 1, and both counts went to 2.
C23_Witness ==
    /\ last.op = "readdir"
    /\ last.plus
    /\ last.offset = 0
    /\ last.reply = "ok"
    /\ Len(last.listing) = 2
    /\ last.listing[1].name = "a"
    /\ last.listing[2].name = "b"
    /\ inodes[last.listing[1].ino].data = 2
    /\ inodes[last.listing[2].ino].data = 2

\* C24: insert_child(parent, child, f) under a live parent. On a name the
\* parent already has, it returns the inode the name maps to, allocates no
\* number and adds no inode, and the inode's data becomes what f makes of the
\* current data (the constant creator: 1; the keeping creator: the current
\* data). On a new name it returns a number not in use, the next one, whose
\* data is what f makes of no data (1, or 0 for the keeping creator).
C24_InsertChildExistingOrNew ==
    [][(last'.op = "insert_child" /\ last'.err = "") =>
          \A parent \in InodeIds, child \in Names :
             InsertChild(parent, child, last'.vc) =>
                LET old == lookup(Mapper, parent, child)
                    i == last'.inode
                    const == last'.vc = LookupCreator(TRUE)
                IN IF old # NoInode
                   THEN /\ i = old
                        /\ next_inode' = next_inode
                        /\ DOMAIN inodes' = DOMAIN inodes
                        /\ inodes'[i].data = IF const THEN 1 ELSE inodes[i].data
                   ELSE /\ i \notin DOMAIN inodes
                        /\ i = next_inode
                        /\ next_inode' > next_inode
                        /\ lookup(Mapper', parent, child) = i
                        /\ inodes'[i].data = IF const THEN 1 ELSE 0]_vars

\* insert_child has just met an existing name with the keeping creator, and
\* the data 1 the inode had is still there.
C24_Witness ==
    /\ last.op = "insert_child"
    /\ last.err = ""
    /\ ~last.is_new
    /\ last.vc = AddChildrenCreator(FALSE)
    /\ inodes[last.inode].data = 1

\* The error rename(p, n, p2, n2) is to return, "" for none.
RenameErrorFor(p, n, p2) ==
    IF p \notin DOMAIN inodes THEN "ParentNotFound"
    ELSE IF p2 \notin DOMAIN inodes THEN "NewParentNotFound"
    ELSE IF p \notin DOMAIN children THEN "NotFound"
    ELSE IF n \notin DOMAIN children[p] THEN "NotFound"
    ELSE ""

\* C25: rename(p, n, p2, n2) returns ParentNotFound when p is not live,
\* NewParentNotFound when p is live and p2 is not, NotFound when both are
\* live and p has no child n, and no error otherwise; in each error case the
\* mapper is left as it was.
C25_RenameErrors ==
    /\ [](\A p \in InodeIds, n \in Names, p2 \in InodeIds, n2 \in Names :
            LET r == rename(Mapper, p, n, p2, n2)
            IN /\ r.err = RenameErrorFor(p, n, p2)
               /\ r.ok <=> r.err = ""
               /\ r.err # "" => r.m = Mapper)
    /\ [][last'.op = "rename" =>
            IF last'.err = ""
            THEN RenameErrorFor(last'.parent, last'.name, last'.newparent) = ""
            ELSE /\ last'.err \in {"ParentNotFound", "NewParentNotFound", "NotFound"}
                 /\ MapperUnchanged]_vars

\* rename has just refused a new parent that was removed, in a mapper that
\* has edges.
C25_Witness ==
    /\ last.op = "rename"
    /\ last.err = "NewParentNotFound"
    /\ DOMAIN children # {}
    /\ \E i \in 1..(next_inode - 1) : i \notin DOMAIN inodes

\* The inode numbers that are not live: removed, or never allocated.
NotLive == InodeIds \ DOMAIN inodes
InsertOps == {"insert_child", "insert_children", "batch_insert"}

\* C26: insert_child, insert_children and batch_insert under a parent that
\* is not live return ParentNotFound and leave the mapper as it was: no
\* inode added, next_inode not advanced, no child index created.
C26_InsertUnderDeadParent ==
    /\ [](\A parent \in NotLive :
            /\ \A child \in Names, vc \in MapperCreators :
                  LET r == insert_child(Mapper, parent, child, vc)
                  IN ~r.ok /\ r.err = "ParentNotFound" /\ r.m = Mapper
            /\ \A list \in ChildLists :
                  LET r == insert_children(Mapper, parent, list)
                  IN ~r.ok /\ r.err = "ParentNotFound" /\ r.m = Mapper
            /\ \A entries \in BatchLists :
                  LET r == batch_insert(Mapper, parent, entries, AddChildrenCreator(FALSE))
                  IN ~r.ok /\ r.err = "ParentNotFound" /\ r.m = Mapper)
    /\ [][(last'.op \in InsertOps /\ last'.err = "ParentNotFound") =>
            /\ MapperUnchanged
            /\ NotLive # {}]_vars

\* insert_children has just been refused under a parent that is not live,
\* in a mapper from which an inode was removed.
C26_Witness ==
    /\ last.op = "insert_children"
    /\ last.err = "ParentNotFound"
    /\ \E i \in 1..(next_inode - 1) : i \in NotLive

RECURSIVE DescendantsFrom(_, _)
\* The inodes of S and everything reachable from them through the child
\* indexes.
DescendantsFrom(M, S) ==
    LET below == UNION {{M.children[p][n] : n \in DOMAIN M.children[p]} :
                          p \in S \cap DOMAIN M.children}
    IN IF below \subseteq S THEN S ELSE DescendantsFrom(M, S \cup below)

\* C27: remove(i) of a live inode i other than the root removes i and every
\* inode reachable from i through the child indexes and returns the data of
\* i; every other inode stays, with its record as it was. remove of an inode
\* that is not live returns none and leaves the mapper as it was.
C27_RemoveCascades ==
    [][(last'.op = "remove" /\ ~last'.panic /\ last'.inode # ROOT_INODE) =>
          LET i == last'.inode
          IN IF i \in DOMAIN inodes
             THEN /\ DOMAIN inodes' = DOMAIN inodes \ DescendantsFrom(Mapper, {i})
                  /\ last'.gone = DescendantsFrom(Mapper, {i})
                  /\ last'.data = Some(inodes[i].data)
                  /\ \A j \in DOMAIN inodes' : inodes'[j] = inodes[j]
                  /\ next_inode' = next_inode
             ELSE /\ last'.data = None
                  /\ MapperUnchanged]_vars

\* C28: rename(p, n, p, n) of an existing edge leaves the mapper as it was:
\* the inode map, the child indexes and next_inode, hence every get, lookup,
\* get_children and resolve.
C28_RenameOntoItself ==
    [][(/\ last'.op = "rename"
        /\ last'.err = ""
        /\ <<last'.parent, last'.name>> = <<last'.newparent, last'.newname>>) =>
          /\ MapperUnchanged
          /\ last'.child = lookup(Mapper, last'.parent, last'.name)
          /\ last'.displaced = NoInode
          /\ \A i \in InodeIds : resolve(Mapper', i) = resolve(Mapper, i)]_vars

\* An edge has just been renamed onto itself under a parent that has another
\* child beside it.
C28_Witness ==
    /\ last.op = "rename"
    /\ last.err = ""
    /\ <<last.parent, last.name>> = <<last.newparent, last.newname>>
    /\ Cardinality(DOMAIN children[last.parent]) = 2

\* C29: a rename followed by its inverse. From every mapper and for every
\* rename(p, n, p2, n2) that succeeds, the inverse rename(p2, n2, p, n)
\* succeeds too, and after it resolve gives for the renamed inode and for
\* every inode below it what it gave before, lookup(p, n) is the renamed
\* inode again, and lookup(p2, n2) is none (for another edge than (p, n)).
\* On the renames the model performs: the inverse puts the inode back under
\* (p, n) and leaves (p2, n2) empty.
C29_RenameThereAndBack ==
    /\ [](\A p \in InodeIds, n \in Names, p2 \in InodeIds, n2 \in Names :
            LET r1 == rename(Mapper, p, n, p2, n2)
                r2 == rename(r1.m, p2, n2, p, n)
            IN r1.ok =>
                 /\ r2.ok
                 /\ r2.child = r1.child
                 /\ \A i \in DescendantsFrom(Mapper, {r1.child}) :
                       resolve(r2.m, i) = resolve(Mapper, i)
                 /\ lookup(r2.m, p, n) = lookup(Mapper, p, n)
                 /\ <<p, n>> # <<p2, n2>> => lookup(r2.m, p2, n2) = NoInode)
    /\ [][(last'.op = "rename" /\ last'.err = "" /\ last'.undoes) =>
            /\ last'.child = last.child
            /\ lookup(Mapper', last.parent, last.name) = last.child
            /\ <<last.parent, last.name>> # <<last.newparent, last.newname>> =>
                   lookup(Mapper', last.newparent, last.newname) = NoInode]_vars

\* A directory with a child was moved to another parent and has just been
\* moved back.
C29_Witness ==
    /\ last.op = "rename"
    /\ last.err = ""
    /\ last.undoes
    /\ last.parent # last.newparent
    /\ last.child \in DOMAIN children

RECURSIVE ChainToRoot(_, _, _)
\* The records on the parent chain from i up to but excluding the root, from
\* leaf to root: "none" when i or an inode of the chain is not there, and
\* "no chain" when the parent links from i do not lead to the root.
ChainToRoot(M, i, steps) ==
    IF i \notin DOMAIN M.inodes THEN [kind |-> "none", infos |-> <<>>]
    ELSE IF i = ROOT_INODE THEN [kind |-> "some", infos |-> <<>>]
    ELSE IF steps = 0 THEN [kind |-> "no chain", infos |-> <<>>]
    ELSE LET up == ChainToRoot(M, M.inodes[i].parent, steps - 1)
             info == [inode |-> i, parent |-> M.inodes[i].parent,
                      name |-> M.inodes[i].name, data |-> M.inodes[i].data]
         IN IF up.kind = "some"
            THEN [kind |-> "some", infos |-> <<info>> \o up.infos]
            ELSE up

\* C30: resolve(i) returns the records on the parent chain from i up to but
\* excluding the root, from leaf to root; resolve(ROOT) is empty; and
\* resolve returns none when i or an inode on its chain is not there.
C30_ResolveChain ==
    \A i \in InodeIds :
        resolve(Mapper, i) = ChainToRoot(Mapper, i, Cardinality(DOMAIN inodes))

\* The one outcome of PathResolver.resolve_id(ino).
PathOf(M, ino) == CHOOSE o \in path_resolve_id(M, ino) : TRUE
\* Path::join with a relative name
Joined(path, name) == IF path = "" THEN name ELSE path \o "/" \o name
\* The single caller's lookup has just returned.
PathLookupReturned ==
    /\ last'.op = "path"
    /\ last'.call.fn = "lookup"
    /\ last'.kind = "ok"

RECURSIVE Walk(_, _, _)
\* lookup along a path of names from an inode: the inode reached, or NoInode
Walk(M, from, path) ==
    IF path = <<>> THEN from
    ELSE IF lookup(M, from, Head(path)) = NoInode THEN NoInode
    ELSE Walk(M, lookup(M, from, Head(path)), Tail(path))

\* The paths of the entries, and the paths of their intermediate components.
EntryPaths(entries) == {entries[k].path : k \in DOMAIN entries}
IntermediatePaths(entries) ==
    UNION {{SubSeq(q, 1, j) : j \in 1..(Len(q) - 1)} : q \in EntryPaths(entries)}

\* C32: batch_insert(parent, entries, default) under a live parent, every
\* path naming its entry, from every mapper. The entries are taken in
\* ascending path length; afterwards the walk by lookup from parent along
\* each entry's path reaches an inode whose data is the output of the
\* entry's creator (1); an intermediate component that existed keeps its
\* inode, one that was missing is a new inode with the default's data for no
\* existing data (0); and one inode is created per missing path, no more.
\* On the batch_inserts the model performs: no inode is lost, and the inodes
\* made are the next numbers.
C32_BatchInsertBuildsPaths ==
    /\ [](\A entries \in BatchLists :
            LET sorted == SortByLen(entries)
            IN /\ Len(sorted) = Len(entries)
               /\ \A e \in {entries[k] : k \in DOMAIN entries} :
                     Cardinality({k \in DOMAIN sorted : sorted[k] = e})
                        = Cardinality({k \in DOMAIN entries : entries[k] = e})
               /\ \A j, k \in DOMAIN sorted :
                     j < k => Len(sorted[j].path) <= Len(sorted[k].path))
    /\ [](\A parent \in DOMAIN inodes, entries \in BatchLists :
            <<>> \notin EntryPaths(entries) =>
            LET r == batch_insert(Mapper, parent, entries, AddChildrenCreator(FALSE))
                missing == {q \in EntryPaths(entries) \cup IntermediatePaths(entries) :
                              Walk(Mapper, parent, q) = NoInode}
            IN /\ r.ok
               /\ \A k \in DOMAIN entries :
                     LET leaf == Walk(r.m, parent, entries[k].path)
                     IN /\ leaf # NoInode
                        /\ entries[k].vc = LookupCreator(TRUE) => r.m.inodes[leaf].data = 1
               /\ \A q \in IntermediatePaths(entries) :
                     LET was == Walk(Mapper, parent, q)
                         now == Walk(r.m, parent, q)
                     IN /\ now # NoInode
                        /\ was # NoInode => now = was
                        /\ (was = NoInode /\ q \notin EntryPaths(entries)) =>
                               /\ now \notin DOMAIN inodes
                               /\ r.m.inodes[now].data = 0
               /\ r.m.next_inode = next_inode + Cardinality(missing)
               /\ DOMAIN r.m.inodes = DOMAIN inodes \cup (next_inode..(r.m.next_inode - 1)))
    /\ [][(last'.op = "batch_insert" /\ last'.err = "" /\ ~last'.panic) =>
            /\ next_inode' = next_inode + last'.made
            /\ DOMAIN inodes' = DOMAIN inodes \cup (next_inode..(next_inode' - 1))]_vars

\* batch_insert has just made two inodes, the directory a and below it b,
\* under a parent that had no child a.
C32_Witness ==
    /\ last.op = "batch_insert"
    /\ last.err = ""
    /\ ~last.panic
    /\ last.made = 2
    /\ \E parent \in DOMAIN inodes :
          /\ Walk(Mapper, parent, <<"a">>) = next_inode - 2
          /\ Walk(Mapper, parent, <<"a", "b">>) = next_inode - 1
          /\ inodes[next_inode - 2].data = 0
          /\ inodes[next_inode - 1].data = 1

RECURSIVE JoinFromRoot(_)
\* The path of a list of names given leaf first: the path of the names above
\* the leaf, joined with the leaf's name.
JoinFromRoot(names) ==
    IF names = <<>> THEN "" ELSE Joined(JoinFromRoot(Tail(names)), Head(names))

\* The names of the mapper's resolve(i), leaf first.
ResolveNames(M, i) == [k \in DOMAIN resolve(M, i).infos |-> resolve(M, i).infos[k].name]

EntriesOf(pairs, i) == Cardinality({k \in DOMAIN pairs : pairs[k].ino = i})

\* C34: a readdir at offset 0 that the handler answers registers every
\* returned name with the resolver and changes no refcount (a new inode
\* starts at 0, an existing one keeps its count); a readdirplus at offset 0
\* adds 1 to the refcount of the child of each returned entry (a new inode
\* counting from 0) and changes no other; a request at an offset above 0
\* leaves the mapper, hence every refcount, as it was.
C34_ReaddirRefcounts ==
    [][DirRead =>
          /\ (last'.offset = 0 /\ last'.reply = "ok") =>
                LET pairs == last'.listing
                IN /\ \A k \in DOMAIN pairs :
                         /\ pairs[k].ino # NoInode
                         /\ lookup(Mapper', last'.ino, pairs[k].name) = pairs[k].ino
                   /\ DOMAIN inodes \subseteq DOMAIN inodes'
                   /\ \A i \in DOMAIN inodes' :
                         inodes'[i].data =
                            (IF i \in DOMAIN inodes THEN inodes[i].data ELSE 0)
                            + (IF last'.plus THEN EntriesOf(pairs, i) ELSE 0)
          /\ last'.offset > 0 => MapperUnchanged]_vars

\* A readdir at offset 0 has just registered its names again: the first
\* child had the count 1 from a readdirplus and still has it.
C34_Witness ==
    /\ last.op = "readdir"
    /\ ~last.plus
    /\ last.offset = 0
    /\ last.reply = "ok"
    /\ last.listing # <<>>
    /\ inodes[last.listing[1].ino].data = 1

\* The inode d was displaced from its edge: its record still names the edge
\* (parent, name), which now leads to the other live inode a.
DisplacedBy(M, d, a) ==
    /\ d \in DOMAIN M.inodes
    /\ a \in DOMAIN M.inodes
    /\ a # d
    /\ lookup(M, M.inodes[d].parent, M.inodes[d].name) = a

\* C35: when remove is called for an inode d that a rename displaced from
\* its edge in favour of the inode a, the edge still leads to a afterwards:
\* lookup of the edge returns a (so no later lookup of it allocates a new
\* inode).
C35_RemoveDisplacedKeepsEdge ==
    [][\A d \in InodeIds \ {ROOT_INODE}, a \in InodeIds :
          (Remove(d) /\ DisplacedBy(Mapper, d, a) /\ a \in DOMAIN inodes')
             => lookup(Mapper', inodes[d].parent, inodes[d].name) = a]_vars

\* C36: when listings of the same directory are in progress at once on
\* different file handles, with their readdir calls interleaved, each
\* listing receives every entry of its list exactly once: a readdir listing
\* that has ended was served the list the handler gave it, in order, and no
\* cursor of one listing was taken or overwritten by the other.
C36_InterleavedListingsComplete ==
    \A fh \in FileHandles :
        (Listings[fh].state = "done" /\ ~Listings[fh].plus)
            => Listings[fh].served = Listings[fh].listing

\* The inode records that name the edge (parent, name).
RecordsOfEdge(M, parent, name) ==
    {i \in DOMAIN M.inodes : M.inodes[i].parent = parent /\ M.inodes[i].name = name}

\* C37: under any interleaving of concurrent ComponentsResolver.lookup
\* calls, either value of increment, every caller for the same (parent,
\* name) receives the same inode number and exactly one inode record exists
\* for that edge afterwards: a call that returns gives the inode the edge
\* leads to and the only record that names the edge, a write-locked section
\* that finds the edge already made allocates nothing and returns the inode
\* of the edge, and no step of a lookup call leads an existing edge to
\* another inode.
C37_ConcurrentLookupsAgree ==
    /\ [][(last'.op = "resolver_lookup" /\ last'.ret # NoInode) =>
             /\ lookup(Mapper', last'.parent, last'.name) = last'.ret
             /\ RecordsOfEdge(Mapper', last'.parent, last'.name) = {last'.ret}
             /\ last'.found =>
                   /\ lookup(Mapper, last'.parent, last'.name) = last'.ret
                   /\ next_inode' = next_inode]_vars
    /\ [][\A p \in InodeIds, n \in Names :
             lookup(Mapper, p, n) # NoInode
                => lookup(Mapper', p, n) = lookup(Mapper, p, n)]_vars

\* Two callers missed the edge under the read lock; the second of them to
\* take the write lock has just found the edge made by the first and
\* returned its inode.
C37_Witness ==
    /\ last.op = "resolver_lookup"
    /\ last.via = "write"
    /\ last.found
    /\ last.ret # NoInode
    /\ \A t \in Threads : AtRest(t)

\* C38: no operation of the ComponentsResolver asks for the write lock
\* while it holds the read lock, so with a fair lock there is no deadlock:
\* under any interleaving of lookup, add_children, forget, rename and
\* resolve_id on live inodes every call that waits for the write lock gets
\* through its section and ends (it returns, or it panics at an unwrap), and
\* no call stays under the read lock for ever.
C38_EveryCallEnds ==
    /\ \A t \in Threads : AwaitsWrite(t) ~> AtRest(t)
    /\ [](~ReadLockStuck)

\* ------------------------------------------------- replies of a request
\* One worker handles the requests one after the other. A request of
\* handle_fuse_reply_entry is one step here: the handler call, then
\* resolver.lookup, resolver.resolve_id, post_lookup and, where that fails,
\* resolver.forget, with the replies sent on the way collected in order. A
\* call of the resolver that panics ends the request where it stands.

\* the error reply left out
reply_error_unsent(sent) == sent
\* $reply.error(e.raw_error())
reply_error(sent) == Append(sent, "error")
\* $reply.entry(ttl, attr, generation)
reply_entry(sent) == Append(sent, "entry")

\* What a request comes to: the mapper, whether the lock got poisoned, the
\* path taken through the macro and the replies sent.
Handled(M, poison, path, sent) == [m |-> M, poison |-> poison, path |-> path, sent |-> sent]

\* a call of the resolver that did not return
Unreturned(o) == Handled(o.m, o.poison, IF o.kind = "hangs" THEN "hangs" ELSE "panic", <<>>)

\* handle_fuse_reply_entry from post_lookup on, ino being the looked-up inode
entry_post_lookup(M, ino, post_ok) ==
    IF post_ok
    THEN {Handled(M, FALSE, "successful entry", reply_entry(<<>>))}
    ELSE {IF f.kind = "ok"
          THEN Handled(f.m, FALSE, "post_lookup error", reply_error(<<>>))
          ELSE Unreturned(f) : f \in components_forget(M, ino, 1)}

\* handle_fuse_reply_entry
entry_request(M, parent, name, handler_ok, post_ok) ==
    IF ~handler_ok
    THEN {Handled(M, FALSE, "handler error", reply_error(<<>>))}
    ELSE UNION {IF l.kind # "ok"
                THEN {Unreturned(l)}
                ELSE UNION {IF r.kind # "ok"
                            THEN {Unreturned([r EXCEPT !.m = l.m])}
                            ELSE entry_post_lookup(l.m, l.ret, post_ok) :
                                r \in components_resolve_id(l.m, l.ret)} :
                    l \in components_lookup(M, parent, name, TRUE)}

\* One entry request; nothing follows a poisoned lock or a call that hangs.
EntryRequest(parent, name, handler_ok, post_ok) ==
    /\ ~poisoned
    /\ last.op = "entry" => last.path # "hangs"
    /\ UNCHANGED <<th, kref, dirmap_iter>>
    /\ \E o \in entry_request(Mapper, parent, name, handler_ok, post_ok) :
          /\ InBounds(o.m)
          /\ CountersInBounds(o.m)
          /\ SetMapper(o.m)
          /\ poisoned' = o.poison
          /\ last' = [op |-> "entry", handler_ok |-> handler_ok, post_ok |-> post_ok,
                      path |-> o.path, sent |-> o.sent]

EntryRequestCall ==
    \E parent \in InodeIds, name \in Names, handler_ok \in BOOLEAN, post_ok \in BOOLEAN :
        EntryRequest(parent, name, handler_ok, post_ok)

\* The directory reads between the entry requests: the handler fails or
\* lists three entries, which fill a buffer of two and fit a buffer of three.
ReplyAnswersAt(offset) ==
    IF offset = 0
    THEN {[ok |-> FALSE, names |-> <<>>], [ok |-> TRUE, names |-> <<"b", "a", "b">>]}
    ELSE DirAnswersAt(offset)

DirRequestCall ==
    \E plus \in BOOLEAN, ino \in InodeIds, offset \in Offsets :
        \E room \in RoomsAt(offset), answer \in ReplyAnswersAt(offset) :
            HandleDirRead(plus, ino, offset, room, answer)

NextReplies ==
    \/ EntryRequestCall
    \/ DirRequestCall

SpecReplies == Init /\ [][NextReplies]_vars

\* C39: every request handled by the entry macro or by the directory-read
\* macro sends exactly one reply on each of its paths: an error reply when
\* the handler fails, an error reply when post_lookup fails (after the
\* forget), one entry reply on success; for a directory read an
\* InvalidArgument error for a negative offset, an ok reply with no entry
\* for a missing cursor, an ok reply when the buffer is full (a cursor is
\* stored) and an ok reply at the natural end of the queue, an error reply
\* when the handler fails. No request takes any other path unless a call of
\* the resolver fails to return.
C39_OneReplyPerRequest ==
    [][/\ last'.op = "entry" =>
             /\ last'.path = "handler error" => last'.sent = <<"error">>
             /\ last'.path = "post_lookup error" => last'.sent = <<"error">>
             /\ last'.path = "successful entry" => last'.sent = <<"entry">>
             /\ ~last'.handler_ok => last'.path = "handler error"
             /\ (last'.handler_ok /\ last'.post_ok)
                   => last'.path \in {"successful entry", "panic", "hangs"}
             /\ (last'.handler_ok /\ ~last'.post_ok)
                   => last'.path \in {"post_lookup error", "panic", "hangs"}
       /\ DirRead =>
             LET missing == /\ last'.offset > 0
                            /\ ~dir_read_resume(dirmap_iter[last'.plus], last'.ino,
                                                last'.offset).found
             IN /\ last'.reply \in {"InvalidArgument", "ok", "error", "panic"}
                /\ last'.offset < 0 => last'.reply = "InvalidArgument"
                /\ missing => (last'.reply = "ok" /\ last'.entries = <<>>)
                /\ last'.offset > 0 => last'.reply = "ok"
                /\ last'.key # None => last'.reply = "ok"
                /\ last'.reply \in {"error", "panic"} => last'.offset = 0
                /\ last'.reply = "InvalidArgument" => last'.offset < 0]_vars

\* A request whose post_lookup failed has just been answered with its one
\* error reply, after the forget that took the reference back.
C39_Witness ==
    /\ last.op = "entry"
    /\ last.path = "post_lookup error"
    /\ last.sent = <<"error">>
    /\ \E i \in DOMAIN inodes \ {ROOT_INODE} : inodes[i].data = 0

\* --------------------------------------------------------------- HybridId
\* HybridId(pub Inode, pub PathBuf): any inode with any relative path; the
\* two fields are public, so nothing ties the one to the other.
HybridInodes == 1..MaxHybridInode
HybridPaths ==
    {path_collect("", components) :
        components \in UNION {[1..n -> Names] : n \in 0..MaxPathLen}}

\* bool ^ bool
xor(a, b) == a # b

\* HybridId::is_filesystem_root. `inode_eq ^ path_eq == false` is
\* (inode_eq ^ path_eq) == false: ^ binds tighter than ==.
is_filesystem_root(inode, path) ==
    LET inode_eq == inode = ROOT_INODE
        path_eq == path = ""
    IN IF xor(inode_eq, path_eq) = FALSE
       THEN [panic |-> TRUE, value |-> FALSE]
       ELSE [panic |-> FALSE, value |-> inode_eq]

IsFilesystemRoot(inode, path) ==
    /\ UNCHANGED <<inodes, children, next_inode, th, poisoned, kref, dirmap_iter>>
    /\ last' = [op |-> "is_filesystem_root", inode |-> inode, path |-> path,
                panic |-> is_filesystem_root(inode, path).panic,
                value |-> is_filesystem_root(inode, path).value]

NextHybrid == \E inode \in HybridInodes, path \in HybridPaths : IsFilesystemRoot(inode, path)

SpecHybrid == Init /\ [][NextHybrid]_vars

\* C40: HybridId::is_filesystem_root returns true when the inode is
\* ROOT_INODE and the path is empty, false when the inode is not ROOT_INODE
\* and the path is not empty, and panics only when exactly one of the two
\* holds.
C40_HybridRoot ==
    last.op = "is_filesystem_root" =>
        LET is_root_inode == last.inode = ROOT_INODE
            is_empty_path == last.path = ""
        IN /\ (is_root_inode /\ is_empty_path) => (~last.panic /\ last.value)
           /\ (~is_root_inode /\ ~is_empty_path) => (~last.panic /\ ~last.value)
           /\ last.panic => (is_root_inode # is_empty_path)
=============================================================================
